---- MODULE Spec2Model ----
(***************************************************************************)
(* Model of the SPL-token transaction scripts:                             *)
(*   src/src/spl-token-manual.ts  (mint + two token accounts + mint + xfer)*)
(*   src/src/spl-mint-manual.ts   (mint only)                              *)
(*   src/unnamed/part_001         (existing mint, two token accounts)      *)
(* The instruction constructors are operators that build the payload byte  *)
(* by byte the way the Buffer writes do; main() of each script is a state  *)
(* machine whose steps are delimited by its statements and awaits.         *)
(***************************************************************************)
EXTENDS Integers, Sequences, FiniteSets, TLC

VARIABLES
    call,             \* codec exploration: the constructor call drawn (kind, arguments)
    ret,              \* codec exploration: what that call returned (or threw)
    heap,             \* codec exploration: the Buffers allocated so far, by address
    script,           \* which script runs
    env,              \* process.env: which of the two values are set
    mintAddress,      \* the string given to MINT_ADDRESS (existing-mint script)
    keypairs,         \* the key pairs main() has loaded or generated so far
    pc,               \* where main() is
    err,              \* the error main() ended with: [uncaught, caught]
    ix,               \* main's instruction locals, by name
    transaction,      \* main's Transaction
    mintRent,         \* main's local mintRent
    tokenAccountRent, \* main's local tokenAccountRent
    latestBlockhash,  \* main's local latestBlockhash.blockhash
    rawTx,            \* main's local rawTx
    txSignature,      \* main's local txSignature
    rpc,              \* the network requests made so far, in order
    accounts,         \* the cluster's accounts
    accounts0,        \* the cluster's accounts when the script started
    rent,             \* the cluster's rent-exempt minimum per account size
    inflight,         \* the transaction handed to the cluster
    txStatus          \* what became of it

codecVars == <<call, ret, heap>>
configVars == <<script, env, mintAddress, keypairs>>
localVars == <<ix, transaction, mintRent, tokenAccountRent, latestBlockhash, rawTx, txSignature>>
clusterVars == <<accounts, accounts0, rent, inflight, txStatus>>
scriptVars == <<configVars, pc, err, localVars, rpc, clusterVars>>
vars == <<codecVars, scriptVars>>

----------------------------------------------------------------------------
(* Identities.  A PublicKey is named by a string; toBuffer() gives 32 bytes. *)

NULL == "null"

TOKEN_PROGRAM_ID == "TokenkegQfeZyiNwAJbNbGKPFXCWuBvf9Ss623VQ5DA"
SYSVAR_RENT_PUBKEY == "SysvarRent111111111111111111111111111111111"
SystemProgramId == "11111111111111111111111111111111"

\* The identities the model draws constructor arguments from.
WalletIds == <<"payer", "receiver", "mint", "tokenAccountA", "tokenAccountB", "existingMint">>

RECURSIVE IndexOf(_, _, _)
IndexOf(seq, x, i) ==
    IF i > Len(seq) THEN 0
    ELSE IF seq[i] = x THEN i
    ELSE IndexOf(seq, x, i + 1)

\* PublicKey.toBuffer(): the 32 raw bytes of the identity.  The system program
\* is the all-zero key; every other identity gets a distinct non-zero blob.
PubkeyToBuffer(id) ==
    IF id = SystemProgramId THEN [i \in 1..32 |-> 0]
    ELSE IF id = TOKEN_PROGRAM_ID THEN [i \in 1..32 |-> (6 + 7 * i) % 256]
    ELSE IF id = SYSVAR_RENT_PUBKEY THEN [i \in 1..32 |-> (6 + 11 * i) % 256]
    ELSE [i \in 1..32 |-> (IndexOf(WalletIds, id, 1) * 16 + i) % 256]

----------------------------------------------------------------------------
(* JavaScript numbers and bigints.  A bigint is a sign and five 16-bit     *)
(* limbs, least significant first (80 bits: enough to hold 2^64).          *)

LimbBase == 256 * 256
LimbMax == LimbBase - 1

Num(n) == [t |-> "number", n |-> n]
Big(neg, limbs) == [t |-> "bigint", neg |-> neg, limbs |-> limbs]

BigZero == Big(FALSE, <<0, 0, 0, 0, 0>>)
BigU64Max == Big(FALSE, <<LimbMax, LimbMax, LimbMax, LimbMax, 0>>)
BigTwo64 == Big(FALSE, <<0, 0, 0, 0, 1>>)
BigMinusOne == Big(TRUE, <<1, 0, 0, 0, 0>>)

\* value * k + carry over the limbs from index i on, for a small k
RECURSIVE MulLimbs(_, _, _, _)
MulLimbs(limbs, k, carry, i) ==
    IF i > Len(limbs) THEN <<>>
    ELSE LET p == limbs[i] * k + carry
         IN  <<p % LimbBase>> \o MulLimbs(limbs, k, p \div LimbBase, i + 1)

BigMulSmall(a, k) == Big(a.neg, MulLimbs(a.limbs, k, 0, 1))

\* BigInt(n) for a non-negative JavaScript number below 2^31
NumberToBigInt(n) ==
    IF n >= 0
    THEN Big(FALSE, <<n % LimbBase, n \div LimbBase, 0, 0, 0>>)
    ELSE Big(TRUE, <<(-n) % LimbBase, (-n) \div LimbBase, 0, 0, 0>>)

\* BigInt(v): v is a number or already a bigint
BigInt(v) == IF v.t = "number" THEN NumberToBigInt(v.n) ELSE v

\* 10n ** BigInt(e)
RECURSIVE BigPow10(_)
BigPow10(e) == IF e = 0 THEN NumberToBigInt(1) ELSE BigMulSmall(BigPow10(e - 1), 10)

\* min <= v <= max of checkInt for the unsigned 64-bit range
InU64Range(v) == ~v.neg /\ v.limbs[5] = 0

----------------------------------------------------------------------------
(* Node's Buffer.  bytes: the contents; written: the 1-based positions some *)
(* write has stored to; err: the exception thrown so far ("none" if none).  *)
(* A write on a buffer whose err is set does nothing: the exception has     *)
(* already left the constructor.                                            *)

BufferAlloc(n) == [bytes |-> [i \in 1..n |-> 0], written |-> {}, err |-> "none"]

Throw(b, e) == [b EXCEPT !.err = e]

\* store the byte sequence bs at 0-based offset (no checks: callers check)
Store(b, bs, offset) ==
    [b EXCEPT !.bytes = [i \in 1..Len(b.bytes) |->
                            IF i > offset /\ i <= offset + Len(bs)
                            THEN bs[i - offset] ELSE b.bytes[i]],
              !.written = @ \cup {offset + k : k \in 1..Len(bs)}]

\* buf.writeUInt8(value, offset)
writeUInt8(b, value, offset) ==
    IF b.err # "none" THEN b
    ELSE IF value < 0 \/ value > 255 THEN Throw(b, "ERR_OUT_OF_RANGE")
    ELSE IF offset + 1 > Len(b.bytes) THEN Throw(b, "ERR_BUFFER_OUT_OF_BOUNDS")
    ELSE Store(b, <<value>>, offset)

\* buf.writeUInt32LE(value, offset), value a number below 2^31
writeUInt32LE(b, value, offset) ==
    IF b.err # "none" THEN b
    ELSE IF value < 0 THEN Throw(b, "ERR_OUT_OF_RANGE")
    ELSE IF offset + 4 > Len(b.bytes) THEN Throw(b, "ERR_BUFFER_OUT_OF_BOUNDS")
    ELSE Store(b, <<value % 256,
                    (value \div 256) % 256,
                    (value \div LimbBase) % 256,
                    (value \div (LimbBase * 256)) % 256>>, offset)

\* faulty variant: most significant byte first
BigUInt64LEBytes_BigEndian(v) ==
    [k \in 1..8 |-> IF k % 2 = 1
                    THEN v.limbs[(10 - k) \div 2] \div 256
                    ELSE v.limbs[(10 - k) \div 2] % 256]

\* the eight bytes of an in-range bigint, least significant first
BigUInt64LEBytes(v) ==
    [k \in 1..8 |-> IF k % 2 = 1
                    THEN v.limbs[(k + 1) \div 2] % 256
                    ELSE v.limbs[k \div 2] \div 256]

\* faulty variant: no range check: the low 64 bits are stored whatever the value
writeBigUInt64LE_Wrapping(b, value, offset) ==
    IF b.err # "none" THEN b
    ELSE IF value.t # "bigint" THEN Throw(b, "TypeError")
    ELSE IF offset + 8 > Len(b.bytes) THEN Throw(b, "ERR_BUFFER_OUT_OF_BOUNDS")
    ELSE Store(b, BigUInt64LEBytes(value), offset)

\* buf.writeBigUInt64LE(value, offset)
writeBigUInt64LE(b, value, offset) ==
    IF b.err # "none" THEN b
    ELSE IF value.t # "bigint" THEN Throw(b, "TypeError")
    ELSE IF ~InU64Range(value) THEN Throw(b, "ERR_OUT_OF_RANGE")
    ELSE IF offset + 8 > Len(b.bytes) THEN Throw(b, "ERR_BUFFER_OUT_OF_BOUNDS")
    ELSE Store(b, BigUInt64LEBytes(value), offset)

Min(a, c) == IF a < c THEN a ELSE c

\* pubkey.toBuffer().copy(buf, offset): copies as many bytes as fit, no error
\* when they do not all fit; a null pubkey has no toBuffer.
copyPubkey(b, id, offset) ==
    IF b.err # "none" THEN b
    ELSE IF id = NULL THEN Throw(b, "TypeError")
    ELSE IF offset >= Len(b.bytes) THEN b
    ELSE Store(b, SubSeq(PubkeyToBuffer(id), 1, Min(32, Len(b.bytes) - offset)), offset)

\* if (freezeAuthority) { freezeAuthority.toBuffer().copy(data, offset) }
copyOptionalPubkey(b, id, offset) == IF id # NULL THEN copyPubkey(b, id, offset) ELSE b

----------------------------------------------------------------------------
(* The instruction constructors.  Each returns                              *)
(*   threw, error : whether an exception left the constructor, and which    *)
(*   programId, keys, data : the TransactionInstruction                     *)
(*   allocated : the length given to Buffer.alloc                           *)
(*   offset : the running offset after the last write                       *)
(*   written : the positions of data some write stored to                   *)

CREATE_ACCOUNT_INDEX == 0
TOKEN_INSTRUCTION_INITIALIZE_MINT == 0
TOKEN_INSTRUCTION_INITIALIZE_ACCOUNT == 1
TOKEN_INSTRUCTION_TRANSFER == 3
TOKEN_INSTRUCTION_MINT_TO == 7

Meta(pubkey, isSigner, isWritable) ==
    [pubkey |-> pubkey, isSigner |-> isSigner, isWritable |-> isWritable]

\* new TransactionInstruction({programId, keys, data}), or the exception
\* w: the buffer as the writes left it and the running offset after the last
Instruction(programId, keys, w, allocated) ==
    IF w.buf.err # "none"
    THEN [threw |-> TRUE, error |-> w.buf.err, programId |-> NULL, keys |-> <<>>,
          data |-> <<>>, allocated |-> allocated, offset |-> 0, written |-> {}]
    ELSE [threw |-> FALSE, error |-> "none", programId |-> programId, keys |-> keys,
          data |-> w.buf.bytes, allocated |-> allocated, offset |-> w.offset,
          written |-> w.buf.written]

AccountKeys(fromPubkey, newAccountPubkey) ==
    << Meta(fromPubkey, TRUE, TRUE), Meta(newAccountPubkey, TRUE, TRUE) >>

\* the 52-byte payload of createAccountInstruction and the final offset
AccountData(lamports, space, owner) ==
    LET o0 == 0
        d1 == writeUInt32LE(BufferAlloc(4 + 8 + 8 + 32), CREATE_ACCOUNT_INDEX, o0)
        o1 == o0 + 4
        d2 == writeBigUInt64LE(d1, BigInt(lamports), o1)
        o2 == o1 + 8
        d3 == writeBigUInt64LE(d2, BigInt(space), o2)
        o3 == o2 + 8
        d4 == copyPubkey(d3, owner, o3)
        o4 == o3 + 32
    IN  [buf |-> d4, offset |-> o4]

createAccountInstruction_OwnerAsProgram(fromPubkey, newAccountPubkey, lamports, space, owner) ==
    Instruction(owner, AccountKeys(fromPubkey, newAccountPubkey),
                AccountData(lamports, space, owner), 4 + 8 + 8 + 32)

createAccountInstruction(fromPubkey, newAccountPubkey, lamports, space, owner) ==
    Instruction(SystemProgramId, AccountKeys(fromPubkey, newAccountPubkey),
                AccountData(lamports, space, owner), 4 + 8 + 8 + 32)

InitializeMintDataLength_NoFreeze(freezeAuthority) == 1 + 1 + 32 + 1

InitializeMintDataLength(freezeAuthority) ==
    IF freezeAuthority # NULL THEN 1 + 1 + 32 + 1 + 32 ELSE 1 + 1 + 32 + 1

FreezeAuthOption_Inverted(freezeAuthority) == IF freezeAuthority # NULL THEN 0 ELSE 1

FreezeAuthOption(freezeAuthority) == IF freezeAuthority # NULL THEN 1 ELSE 0

InitializeMintKeys(mintPubkey) ==
    << Meta(mintPubkey, FALSE, TRUE), Meta(SYSVAR_RENT_PUBKEY, FALSE, FALSE) >>

createInitializeMintInstruction(mintPubkey, decimals, mintAuthority, freezeAuthority) ==
    LET freezeAuthOption == FreezeAuthOption(freezeAuthority)
        dataLength == InitializeMintDataLength(freezeAuthority)
        o0 == 0
        d1 == writeUInt8(BufferAlloc(dataLength), TOKEN_INSTRUCTION_INITIALIZE_MINT, o0)
        o1 == o0 + 1
        d2 == writeUInt8(d1, decimals, o1)
        o2 == o1 + 1
        d3 == copyPubkey(d2, mintAuthority, o2)
        o3 == o2 + 32
        d4 == writeUInt8(d3, freezeAuthOption, o3)
        o4 == o3 + 1
        d5 == copyOptionalPubkey(d4, freezeAuthority, o4)
        o5 == IF freezeAuthority # NULL THEN o4 + 32 ELSE o4
    IN  Instruction(TOKEN_PROGRAM_ID, InitializeMintKeys(mintPubkey),
                    [buf |-> d5, offset |-> o5], dataLength)

InitializeAccountKeys(tokenAccountPubkey, mintPubkey, ownerPubkey) ==
    << Meta(tokenAccountPubkey, FALSE, TRUE), Meta(mintPubkey, FALSE, FALSE),
       Meta(ownerPubkey, FALSE, FALSE), Meta(SYSVAR_RENT_PUBKEY, FALSE, FALSE) >>

createInitializeAccountInstruction(tokenAccountPubkey, mintPubkey, ownerPubkey) ==
    Instruction(TOKEN_PROGRAM_ID,
                InitializeAccountKeys(tokenAccountPubkey, mintPubkey, ownerPubkey),
                [buf |-> writeUInt8(BufferAlloc(1), TOKEN_INSTRUCTION_INITIALIZE_ACCOUNT, 0),
                 offset |-> 0 + 1],
                1)

MintToKeys(mintPubkey, destTokenAccountPubkey, mintAuthorityPubkey) ==
    << Meta(mintPubkey, FALSE, TRUE), Meta(destTokenAccountPubkey, FALSE, TRUE),
       Meta(mintAuthorityPubkey, TRUE, FALSE) >>

\* the tag byte and the 8-byte amount of MintTo and Transfer
AmountData(tag, amount) ==
    LET o0 == 0
        d1 == writeUInt8(BufferAlloc(1 + 8), tag, o0)
        o1 == o0 + 1
        d2 == writeBigUInt64LE(d1, amount, o1)
        o2 == o1 + 8
    IN  [buf |-> d2, offset |-> o2]

createMintToInstruction(mintPubkey, destTokenAccountPubkey, mintAuthorityPubkey, amount) ==
    Instruction(TOKEN_PROGRAM_ID,
                MintToKeys(mintPubkey, destTokenAccountPubkey, mintAuthorityPubkey),
                AmountData(TOKEN_INSTRUCTION_MINT_TO, amount), 1 + 8)

TransferKeys_OwnerNotSigner(sourceTokenAccountPubkey, destTokenAccountPubkey, ownerPubkey) ==
    << Meta(sourceTokenAccountPubkey, FALSE, TRUE), Meta(destTokenAccountPubkey, FALSE, TRUE),
       Meta(ownerPubkey, FALSE, FALSE) >>

TransferKeys(sourceTokenAccountPubkey, destTokenAccountPubkey, ownerPubkey) ==
    << Meta(sourceTokenAccountPubkey, FALSE, TRUE), Meta(destTokenAccountPubkey, FALSE, TRUE),
       Meta(ownerPubkey, TRUE, FALSE) >>

createTransferInstruction(sourceTokenAccountPubkey, destTokenAccountPubkey, ownerPubkey, amount) ==
    Instruction(TOKEN_PROGRAM_ID,
                TransferKeys(sourceTokenAccountPubkey, destTokenAccountPubkey, ownerPubkey),
                AmountData(TOKEN_INSTRUCTION_TRANSFER, amount), 1 + 8)

----------------------------------------------------------------------------
(* The constructors are written out once per script.  The copies of         *)
(* spl-mint-manual.ts (inside its main) and of the existing-mint script,    *)
(* each with the constants of its own file.                                 *)

MintManual_CREATE_ACCOUNT_INDEX == 0
MintManual_TOKEN_INSTRUCTION_INITIALIZE_MINT == 0
ExistingMint_CREATE_ACCOUNT_INDEX == 0
ExistingMint_TOKEN_INSTRUCTION_INITIALIZE_ACCOUNT == 1
ExistingMint_TOKEN_INSTRUCTION_TRANSFER == 3
ExistingMint_TOKEN_INSTRUCTION_MINT_TO == 7

MintManual_createAccountInstruction(fromPubkey, newAccountPubkey, lamports, space, owner) ==
    LET o0 == 0
        d1 == writeUInt32LE(BufferAlloc(4 + 8 + 8 + 32), MintManual_CREATE_ACCOUNT_INDEX, o0)
        o1 == o0 + 4
        d2 == writeBigUInt64LE(d1, BigInt(lamports), o1)
        o2 == o1 + 8
        d3 == writeBigUInt64LE(d2, BigInt(space), o2)
        o3 == o2 + 8
        d4 == copyPubkey(d3, owner, o3)
        o4 == o3 + 32
    IN  Instruction(SystemProgramId,
                    << Meta(fromPubkey, TRUE, TRUE), Meta(newAccountPubkey, TRUE, TRUE) >>,
                    [buf |-> d4, offset |-> o4], 4 + 8 + 8 + 32)

MintManual_createInitializeMintInstruction(mintPubkey, decimals, mintAuthority, freezeAuthority) ==
    LET freezeAuthOption == IF freezeAuthority # NULL THEN 1 ELSE 0
        datalength == IF freezeAuthority # NULL THEN 1 + 1 + 32 + 1 + 32 ELSE 1 + 1 + 32 + 1
        o0 == 0
        d1 == writeUInt8(BufferAlloc(datalength),
                         MintManual_TOKEN_INSTRUCTION_INITIALIZE_MINT, o0)
        o1 == o0 + 1
        d2 == writeUInt8(d1, decimals, o1)
        o2 == o1 + 1
        d3 == copyPubkey(d2, mintAuthority, o2)
        o3 == o2 + 32
        d4 == writeUInt8(d3, freezeAuthOption, o3)
        o4 == o3 + 1
        d5 == IF freezeAuthority # NULL THEN copyPubkey(d4, freezeAuthority, o4) ELSE d4
        o5 == IF freezeAuthority # NULL THEN o4 + 32 ELSE o4
    IN  Instruction(TOKEN_PROGRAM_ID,
                    << Meta(mintPubkey, FALSE, TRUE), Meta(SYSVAR_RENT_PUBKEY, FALSE, FALSE) >>,
                    [buf |-> d5, offset |-> o5], datalength)

ExistingMint_createAccountInstruction(fromPubkey, newAccountPubkey, lamports, space, owner) ==
    LET o0 == 0
        d1 == writeUInt32LE(BufferAlloc(4 + 8 + 8 + 32), ExistingMint_CREATE_ACCOUNT_INDEX, o0)
        o1 == o0 + 4
        d2 == writeBigUInt64LE(d1, BigInt(lamports), o1)
        o2 == o1 + 8
        d3 == writeBigUInt64LE(d2, BigInt(space), o2)
        o3 == o2 + 8
        d4 == copyPubkey(d3, owner, o3)
        o4 == o3 + 32
    IN  Instruction(SystemProgramId,
                    << Meta(fromPubkey, TRUE, TRUE), Meta(newAccountPubkey, TRUE, TRUE) >>,
                    [buf |-> d4, offset |-> o4], 4 + 8 + 8 + 32)

ExistingMint_createInitializeAccountInstruction(tokenAccountPubkey, mintPubkey, ownerPubkey) ==
    Instruction(TOKEN_PROGRAM_ID,
                << Meta(tokenAccountPubkey, FALSE, TRUE), Meta(mintPubkey, FALSE, FALSE),
                   Meta(ownerPubkey, FALSE, FALSE), Meta(SYSVAR_RENT_PUBKEY, FALSE, FALSE) >>,
                [buf |-> writeUInt8(BufferAlloc(1),
                                    ExistingMint_TOKEN_INSTRUCTION_INITIALIZE_ACCOUNT, 0),
                 offset |-> 0 + 1],
                1)

ExistingMint_createMintToInstruction(mintPubkey, destTokenAccountPubkey, mintAuthorityPubkey, amount) ==
    LET o0 == 0
        d1 == writeUInt8(BufferAlloc(1 + 8), ExistingMint_TOKEN_INSTRUCTION_MINT_TO, o0)
        o1 == o0 + 1
        d2 == writeBigUInt64LE(d1, amount, o1)
        o2 == o1 + 8
    IN  Instruction(TOKEN_PROGRAM_ID,
                    << Meta(mintPubkey, FALSE, TRUE), Meta(destTokenAccountPubkey, FALSE, TRUE),
                       Meta(mintAuthorityPubkey, TRUE, FALSE) >>,
                    [buf |-> d2, offset |-> o2], 1 + 8)

\* faulty variant: the copy carries the opcode of MintTo
ExistingMint_createTransferInstruction_MintToTag(sourceTokenAccountPubkey, destTokenAccountPubkey, ownerPubkey, amount) ==
    ExistingMint_createMintToInstruction(sourceTokenAccountPubkey, destTokenAccountPubkey,
                                         ownerPubkey, amount)

ExistingMint_createTransferInstruction(sourceTokenAccountPubkey, destTokenAccountPubkey, ownerPubkey, amount) ==
    LET o0 == 0
        d1 == writeUInt8(BufferAlloc(1 + 8), ExistingMint_TOKEN_INSTRUCTION_TRANSFER, o0)
        o1 == o0 + 1
        d2 == writeBigUInt64LE(d1, amount, o1)
        o2 == o1 + 8
    IN  Instruction(TOKEN_PROGRAM_ID,
                    << Meta(sourceTokenAccountPubkey, FALSE, TRUE),
                       Meta(destTokenAccountPubkey, FALSE, TRUE),
                       Meta(ownerPubkey, TRUE, FALSE) >>,
                    [buf |-> d2, offset |-> o2], 1 + 8)

----------------------------------------------------------------------------
(* Unsigned arithmetic on bigints (the cluster's lamports and token amounts). *)

RECURSIVE AddLimbs(_, _, _, _)
AddLimbs(a, b, carry, i) ==
    IF i > Len(a) THEN <<>>
    ELSE LET sum == a[i] + b[i] + carry
         IN  <<sum % LimbBase>> \o AddLimbs(a, b, sum \div LimbBase, i + 1)

BigAdd(a, b) == Big(FALSE, AddLimbs(a.limbs, b.limbs, 0, 1))

RECURSIVE SubLimbs(_, _, _, _)
SubLimbs(a, b, borrow, i) ==
    IF i > Len(a) THEN <<>>
    ELSE LET d == a[i] - b[i] - borrow
         IN  IF d < 0 THEN <<d + LimbBase>> \o SubLimbs(a, b, 1, i + 1)
             ELSE <<d>> \o SubLimbs(a, b, 0, i + 1)

\* a - b for a >= b >= 0
BigSub(a, b) == Big(FALSE, SubLimbs(a.limbs, b.limbs, 0, 1))

RECURSIVE LimbsLeq(_, _, _)
LimbsLeq(a, b, i) ==
    IF i = 0 THEN TRUE
    ELSE IF a[i] < b[i] THEN TRUE
    ELSE IF a[i] > b[i] THEN FALSE
    ELSE LimbsLeq(a, b, i - 1)

\* a <= b for a, b >= 0
BigLeq(a, b) == LimbsLeq(a.limbs, b.limbs, Len(a.limbs))

----------------------------------------------------------------------------
(* web3.js Transaction: add, sign, serialize, as the scripts use them.      *)
(* A signature is modelled by the identity whose key made it (NULL: none);  *)
(* the scripts change nothing between sign() and serialize(), so a          *)
(* signature made by sign() is one over the message serialize() compiles.   *)

NewTransaction ==
    [instructions |-> <<>>, recentBlockhash |-> NULL, feePayer |-> NULL, signatures |-> <<>>]

\* the TransactionInstruction a constructor returned
Ix(r) == [programId |-> r.programId, keys |-> r.keys, data |-> r.data]

\* transaction.add(...items)
TransactionAdd(tx, items) == [tx EXCEPT !.instructions = @ \o items]

RECURSIVE FlattenKeys(_, _)
FlattenKeys(instructions, i) ==
    IF i > Len(instructions) THEN <<>>
    ELSE instructions[i].keys \o FlattenKeys(instructions, i + 1)

RECURSIVE ProgramMetas(_, _, _)
ProgramMetas(instructions, i, seen) ==
    IF i > Len(instructions) THEN <<>>
    ELSE IF instructions[i].programId \in seen THEN ProgramMetas(instructions, i + 1, seen)
    ELSE <<Meta(instructions[i].programId, FALSE, FALSE)>>
         \o ProgramMetas(instructions, i + 1, seen \cup {instructions[i].programId})

RECURSIVE IndexOfKey(_, _, _)
IndexOfKey(metas, pubkey, i) ==
    IF i > Len(metas) THEN 0
    ELSE IF metas[i].pubkey = pubkey THEN i
    ELSE IndexOfKey(metas, pubkey, i + 1)

\* "Cull duplicate account metas": one meta per identity, flags or-ed
RECURSIVE CullDuplicates(_, _, _)
CullDuplicates(metas, i, acc) ==
    IF i > Len(metas) THEN acc
    ELSE LET m == metas[i]
             k == IndexOfKey(acc, m.pubkey, 1)
         IN  IF k > 0
             THEN CullDuplicates(metas, i + 1,
                      [acc EXCEPT ![k].isWritable = @ \/ m.isWritable,
                                  ![k].isSigner = @ \/ m.isSigner])
             ELSE CullDuplicates(metas, i + 1, Append(acc, m))

\* signers first, then writable first (ties keep their order)
SortMetas(metas) ==
    LET SW(m) == m.isSigner /\ m.isWritable
        SR(m) == m.isSigner /\ ~m.isWritable
        UW(m) == ~m.isSigner /\ m.isWritable
        UR(m) == ~m.isSigner /\ ~m.isWritable
    IN  SelectSeq(metas, SW) \o SelectSeq(metas, SR)
        \o SelectSeq(metas, UW) \o SelectSeq(metas, UR)

\* "Move fee payer to the front"
FeePayerFirst(metas, feePayer) ==
    LET k == IndexOfKey(metas, feePayer, 1)
        rest == IF k > 0 THEN SubSeq(metas, 1, k - 1) \o SubSeq(metas, k + 1, Len(metas))
                ELSE metas
    IN  <<Meta(feePayer, TRUE, TRUE)>> \o rest

\* "Disallow unknown signers": a signature of an account that is no signer
\* makes it one
RECURSIVE MarkSigners(_, _, _)
MarkSigners(metas, signatures, i) ==
    IF i > Len(signatures) THEN metas
    ELSE LET k == IndexOfKey(metas, signatures[i].publicKey, 1)
         IN  MarkSigners([metas EXCEPT ![k].isSigner = TRUE], signatures, i + 1)

Pubkeys(metas) == [i \in 1..Len(metas) |-> metas[i].pubkey]

IsSignerMeta(m) == m.isSigner
IsUnsignedMeta(m) == ~m.isSigner
IsReadonlySigned(m) == m.isSigner /\ ~m.isWritable
IsReadonlyUnsigned(m) == ~m.isSigner /\ ~m.isWritable

NoMessage(e) ==
    [err |-> e, numRequiredSignatures |-> 0, numReadonlySignedAccounts |-> 0,
     numReadonlyUnsignedAccounts |-> 0, accountKeys |-> <<>>, recentBlockhash |-> NULL,
     instructions |-> <<>>]

\* the Message built from the final account metas
MessageOf(tx, metas, accountKeys) ==
    [err |-> "none",
     numRequiredSignatures |-> Len(SelectSeq(metas, IsSignerMeta)),
     numReadonlySignedAccounts |-> Len(SelectSeq(metas, IsReadonlySigned)),
     numReadonlyUnsignedAccounts |-> Len(SelectSeq(metas, IsReadonlyUnsigned)),
     accountKeys |-> accountKeys,
     recentBlockhash |-> tx.recentBlockhash,
     instructions |->
        [i \in 1..Len(tx.instructions) |->
            [programIdIndex |-> IndexOf(accountKeys, tx.instructions[i].programId, 1),
             accounts |-> [j \in 1..Len(tx.instructions[i].keys) |->
                             IndexOf(accountKeys, tx.instructions[i].keys[j].pubkey, 1)],
             data |-> tx.instructions[i].data]]]

\* signer keys first, then the others
SplitKeys(tx, metas) ==
    MessageOf(tx, metas,
              Pubkeys(SelectSeq(metas, IsSignerMeta)) \o Pubkeys(SelectSeq(metas, IsUnsignedMeta)))

CheckSigners(tx, uniqueMetas) ==
    IF \E i \in 1..Len(tx.signatures) :
            IndexOfKey(uniqueMetas, tx.signatures[i].publicKey, 1) = 0
    THEN NoMessage("unknown signer")
    ELSE SplitKeys(tx, MarkSigners(uniqueMetas, tx.signatures, 1))

CompileFor(tx, feePayer) ==
    CheckSigners(tx,
        FeePayerFirst(
            SortMetas(CullDuplicates(FlattenKeys(tx.instructions, 1)
                                       \o ProgramMetas(tx.instructions, 1, {}), 1, <<>>)),
            feePayer))

\* transaction.compileMessage()
CompileMessage(tx) ==
    IF tx.recentBlockhash = NULL THEN NoMessage("Transaction recentBlockhash required")
    ELSE IF tx.feePayer = NULL /\ tx.signatures = <<>>
    THEN NoMessage("Transaction fee payer required")
    ELSE CompileFor(tx, IF tx.feePayer # NULL THEN tx.feePayer ELSE tx.signatures[1].publicKey)

RECURSIVE Dedupe(_, _, _)
Dedupe(seq, i, acc) ==
    IF i > Len(seq) THEN acc
    ELSE IF IndexOf(acc, seq[i], 1) > 0 THEN Dedupe(seq, i + 1, acc)
    ELSE Dedupe(seq, i + 1, Append(acc, seq[i]))

EmptySignatures(keys) == [i \in 1..Len(keys) |-> [publicKey |-> keys[i], signature |-> NULL]]

\* the signature slots in the order of the message's signer keys: kept when
\* they are already those keys, reset otherwise
SlotsFor(tx, m) ==
    [message |-> m,
     signatures |->
        IF m.err # "none" THEN tx.signatures
        ELSE IF [i \in 1..Len(tx.signatures) |-> tx.signatures[i].publicKey]
                    = SubSeq(m.accountKeys, 1, m.numRequiredSignatures)
        THEN tx.signatures
        ELSE EmptySignatures(SubSeq(m.accountKeys, 1, m.numRequiredSignatures))]

\* transaction._compile()
Compile(tx) == SlotsFor(tx, CompileMessage(tx))

\* _partialSign: each signer's signature goes into its slot
PartialSign(tx, uniqueSigners, c) ==
    IF c.message.err # "none"
    THEN [err |-> c.message.err,
          tx |-> [tx EXCEPT !.signatures = EmptySignatures(uniqueSigners)]]
    ELSE [err |-> "none",
          tx |-> [tx EXCEPT !.signatures =
                    [i \in 1..Len(c.signatures) |->
                        IF IndexOf(uniqueSigners, c.signatures[i].publicKey, 1) > 0
                        THEN [c.signatures[i] EXCEPT !.signature = c.signatures[i].publicKey]
                        ELSE c.signatures[i]]]]

SignUnique(tx, uniqueSigners) ==
    PartialSign(tx, uniqueSigners,
                Compile([tx EXCEPT !.signatures = EmptySignatures(uniqueSigners)]))

\* transaction.sign(...signers): [err, tx]
TransactionSign(tx, signers) ==
    IF signers = <<>> THEN [err |-> "No signers", tx |-> tx]
    ELSE SignUnique(tx, Dedupe(signers, 1, <<>>))

NoWire == [signatures |-> <<>>, message |-> NoMessage("none")]

\* faulty variant: serialize({requireAllSignatures: false, verifySignatures: false})
WireOf_Unchecked(c) ==
    IF c.message.err # "none" THEN [err |-> c.message.err, wire |-> NoWire]
    ELSE [err |-> "none",
          wire |-> [signatures |-> [i \in 1..Len(c.signatures) |-> c.signatures[i].signature],
                    message |-> c.message]]

\* the wire transaction, or the signedness error (requireAllSignatures)
WireOf(c) ==
    IF c.message.err # "none" THEN [err |-> c.message.err, wire |-> NoWire]
    ELSE IF \E i \in 1..Len(c.signatures) : c.signatures[i].signature = NULL
    THEN [err |-> "Signature verification failed", wire |-> NoWire]
    ELSE [err |-> "none",
          wire |-> [signatures |-> [i \in 1..Len(c.signatures) |-> c.signatures[i].signature],
                    message |-> c.message]]

\* transaction.serialize(): [err, wire]
TransactionSerialize(tx) == WireOf(Compile(tx))

----------------------------------------------------------------------------
(* The cluster: accounts, and the execution of a submitted transaction.     *)
(* The programs read the payload bytes back; a transaction whose            *)
(* instructions do not all succeed leaves the accounts as they were         *)
(* (README, "Why This Matters").                                            *)

MINT_SIZE == 82
ACCOUNT_SIZE == 165

NoAccount ==
    [state |-> "none", lamports |-> BigZero, space |-> BigZero, owner |-> SystemProgramId,
     decimals |-> 0, authority |-> NULL, freeze |-> NULL, supply |-> BigZero,
     mint |-> NULL, tokenOwner |-> NULL, amount |-> BigZero]

SystemAccount(lamports) == [NoAccount EXCEPT !.state = "system", !.lamports = lamports]

MintAccount(lamports, decimals, authority, supply) ==
    [NoAccount EXCEPT !.state = "mint", !.lamports = lamports,
                      !.space = NumberToBigInt(MINT_SIZE), !.owner = TOKEN_PROGRAM_ID,
                      !.decimals = decimals, !.authority = authority, !.supply = supply]

AllIds == {WalletIds[i] : i \in 1..Len(WalletIds)}
             \cup {TOKEN_PROGRAM_ID, SYSVAR_RENT_PUBKEY, SystemProgramId}

\* the identity whose 32 bytes these are (NULL when they are no known identity's)
PubkeyFromBytes(bytes) ==
    IF \E id \in AllIds : PubkeyToBuffer(id) = bytes
    THEN CHOOSE id \in AllIds : PubkeyToBuffer(id) = bytes
    ELSE NULL

ReadUInt32LE(data, offset) ==
    data[offset + 1] + 256 * data[offset + 2] + LimbBase * data[offset + 3]
        + LimbBase * 256 * (data[offset + 4] % 128)

\* the unsigned 64-bit value of the eight bytes at 0-based offset
ReadU64(data, offset) ==
    Big(FALSE, <<data[offset + 1] + 256 * data[offset + 2],
                 data[offset + 3] + 256 * data[offset + 4],
                 data[offset + 5] + 256 * data[offset + 6],
                 data[offset + 7] + 256 * data[offset + 8], 0>>)

Fail(l) == [ok |-> FALSE, accounts |-> l]
Ok(l) == [ok |-> TRUE, accounts |-> l]

\* the instruction as the program sees it: identities and flags from the
\* message's account keys and header
Decompile(m, i) ==
    LET ci == m.instructions[i]
        n == Len(m.accountKeys)
        IsSigner(k) == k <= m.numRequiredSignatures
        IsWritable(k) ==
            \/ k <= m.numRequiredSignatures - m.numReadonlySignedAccounts
            \/ k > m.numRequiredSignatures /\ k <= n - m.numReadonlyUnsignedAccounts
    IN  [programId |-> m.accountKeys[ci.programIdIndex],
         keys |-> [j \in 1..Len(ci.accounts) |->
                      Meta(m.accountKeys[ci.accounts[j]], IsSigner(ci.accounts[j]),
                           IsWritable(ci.accounts[j]))],
         data |-> ci.data]

\* System program, CreateAccount
ExecCreateAccount(l, rentMin, instr) ==
    IF Len(instr.keys) < 2 \/ Len(instr.data) # 52 THEN Fail(l)
    ELSE
    LET from == instr.keys[1]
        new == instr.keys[2]
        lamports == ReadU64(instr.data, 4)
        space == ReadU64(instr.data, 12)
        owner == PubkeyFromBytes(SubSeq(instr.data, 21, 52))
    IN  IF /\ from.isSigner /\ from.isWritable /\ new.isSigner /\ new.isWritable
           /\ from.pubkey \in DOMAIN l /\ new.pubkey \in DOMAIN l
           /\ from.pubkey # new.pubkey
           /\ l[from.pubkey].state = "system"
           /\ l[new.pubkey].state = "none"
           /\ BigLeq(lamports, l[from.pubkey].lamports)
        THEN Ok([l EXCEPT ![from.pubkey].lamports = BigSub(@, lamports),
                          ![new.pubkey] = [NoAccount EXCEPT !.state = "allocated",
                                               !.lamports = lamports, !.space = space,
                                               !.owner = owner]])
        ELSE Fail(l)

\* an allocated, token-program-owned, rentMin-exempt account of the given size
Initializable(l, rentMin, meta, size) ==
    /\ meta.isWritable
    /\ meta.pubkey \in DOMAIN l
    /\ l[meta.pubkey].state = "allocated"
    /\ l[meta.pubkey].owner = TOKEN_PROGRAM_ID
    /\ l[meta.pubkey].space = NumberToBigInt(size)
    /\ BigLeq(NumberToBigInt(rentMin[size]), l[meta.pubkey].lamports)

\* Token program, InitializeMint
ExecInitializeMint(l, rentMin, instr) ==
    IF Len(instr.keys) < 2 \/ Len(instr.data) < 35 THEN Fail(l)
    ELSE IF instr.data[35] = 1 /\ Len(instr.data) < 67 THEN Fail(l)
    ELSE IF /\ Initializable(l, rentMin, instr.keys[1], MINT_SIZE)
            /\ instr.keys[2].pubkey = SYSVAR_RENT_PUBKEY
    THEN Ok([l EXCEPT ![instr.keys[1].pubkey] =
                [@ EXCEPT !.state = "mint", !.decimals = instr.data[2],
                          !.authority = PubkeyFromBytes(SubSeq(instr.data, 3, 34)),
                          !.freeze = IF instr.data[35] = 1
                                     THEN PubkeyFromBytes(SubSeq(instr.data, 36, 67))
                                     ELSE NULL,
                          !.supply = BigZero]])
    ELSE Fail(l)

\* Token program, InitializeAccount
ExecInitializeAccount(l, rentMin, instr) ==
    IF Len(instr.keys) < 4 THEN Fail(l)
    ELSE IF /\ Initializable(l, rentMin, instr.keys[1], ACCOUNT_SIZE)
            /\ instr.keys[2].pubkey \in DOMAIN l
            /\ l[instr.keys[2].pubkey].state = "mint"
            /\ instr.keys[4].pubkey = SYSVAR_RENT_PUBKEY
    THEN Ok([l EXCEPT ![instr.keys[1].pubkey] =
                [@ EXCEPT !.state = "token", !.mint = instr.keys[2].pubkey,
                          !.tokenOwner = instr.keys[3].pubkey, !.amount = BigZero]])
    ELSE Fail(l)

\* Token program, MintTo
ExecMintTo(l, rentMin, instr) ==
    IF Len(instr.keys) < 3 \/ Len(instr.data) < 9 THEN Fail(l)
    ELSE
    LET mint == instr.keys[1]
        dest == instr.keys[2]
        auth == instr.keys[3]
        amount == ReadU64(instr.data, 1)
    IN  IF /\ mint.pubkey \in DOMAIN l /\ dest.pubkey \in DOMAIN l
           /\ mint.isWritable /\ dest.isWritable
           /\ l[mint.pubkey].state = "mint"
           /\ l[dest.pubkey].state = "token"
           /\ l[dest.pubkey].mint = mint.pubkey
           /\ l[mint.pubkey].authority = auth.pubkey
           /\ auth.isSigner
           /\ InU64Range(BigAdd(l[mint.pubkey].supply, amount))
           /\ InU64Range(BigAdd(l[dest.pubkey].amount, amount))
        THEN Ok([l EXCEPT ![mint.pubkey].supply = BigAdd(@, amount),
                          ![dest.pubkey].amount = BigAdd(@, amount)])
        ELSE Fail(l)

\* Token program, Transfer (a transfer of an account to itself is checked like
\* any other and changes nothing)
ExecTransfer(l, rentMin, instr) ==
    IF Len(instr.keys) < 3 \/ Len(instr.data) < 9 THEN Fail(l)
    ELSE
    LET source == instr.keys[1]
        dest == instr.keys[2]
        owner == instr.keys[3]
        amount == ReadU64(instr.data, 1)
    IN  IF /\ source.pubkey \in DOMAIN l /\ dest.pubkey \in DOMAIN l
           /\ source.isWritable /\ dest.isWritable
           /\ l[source.pubkey].state = "token"
           /\ l[dest.pubkey].state = "token"
           /\ l[source.pubkey].mint = l[dest.pubkey].mint
           /\ l[source.pubkey].tokenOwner = owner.pubkey
           /\ owner.isSigner
           /\ BigLeq(amount, l[source.pubkey].amount)
        THEN IF source.pubkey = dest.pubkey THEN Ok(l)
             ELSE Ok([l EXCEPT ![source.pubkey].amount = BigSub(@, amount),
                               ![dest.pubkey].amount = BigAdd(@, amount)])
        ELSE Fail(l)

\* one instruction, dispatched on the program and the opcode
Execute(l, rentMin, instr) ==
    IF instr.data = <<>> THEN Fail(l)
    ELSE IF instr.programId = SystemProgramId
    THEN IF Len(instr.data) >= 4 /\ ReadUInt32LE(instr.data, 0) = CREATE_ACCOUNT_INDEX
         THEN ExecCreateAccount(l, rentMin, instr) ELSE Fail(l)
    ELSE IF instr.programId = TOKEN_PROGRAM_ID
    THEN CASE instr.data[1] = TOKEN_INSTRUCTION_INITIALIZE_MINT -> ExecInitializeMint(l, rentMin, instr)
           [] instr.data[1] = TOKEN_INSTRUCTION_INITIALIZE_ACCOUNT -> ExecInitializeAccount(l, rentMin, instr)
           [] instr.data[1] = TOKEN_INSTRUCTION_MINT_TO -> ExecMintTo(l, rentMin, instr)
           [] instr.data[1] = TOKEN_INSTRUCTION_TRANSFER -> ExecTransfer(l, rentMin, instr)
           [] OTHER -> Fail(l)
    ELSE Fail(l)

\* the instructions of message m from the i-th on, in order, stopping at the
\* first that fails
RECURSIVE RunInstructions(_, _, _, _)
RunInstructions(l, rentMin, m, i) ==
    IF i > Len(m.instructions) THEN [ok |-> TRUE, accounts |-> l, failedAt |-> 0]
    ELSE LET Continue(r) ==
                 IF r.ok THEN RunInstructions(r.accounts, rentMin, m, i + 1)
                 ELSE [ok |-> FALSE, accounts |-> r.accounts, failedAt |-> i]
         IN  Continue(Execute(l, rentMin, Decompile(m, i)))

\* faulty variant: the effects of the instructions before the failing one are kept
ProcessTransaction_NoRollback(l, rentMin, wire) ==
    RunInstructions(l, rentMin, wire.message, 1)

Commit(l, r) ==
    [ok |-> r.ok, accounts |-> IF r.ok THEN r.accounts ELSE l, failedAt |-> r.failedAt]

\* the whole transaction: every instruction's effects, or none
ProcessTransaction(l, rentMin, wire) ==
    Commit(l, RunInstructions(l, rentMin, wire.message, 1))

----------------------------------------------------------------------------
(* main() of the three scripts.                                             *)

TokenManual == "spl-token-manual"
MintManual == "spl-mint-manual"
ExistingMint == "spl-token-existing-mint"
Scripts == {TokenManual, MintManual, ExistingMint}

Placeholder == "PASTE_YOUR_MINT_ADDRESS_HERE"

decimals == 9
amountToMint == BigMulSmall(BigPow10(decimals), 10)
amountToTransfer == BigMulSmall(BigPow10(decimals), 3)

Undefined == [t |-> "undefined"]

\* what RECEIVER_PUBLIC_KEY may hold: nothing, the address of another wallet,
\* or the sender's own address
Unset == "undefined"
ReceiverKeys == {"receiver", "payer"}

\* receiverPubkey = new PublicKey(process.env.RECEIVER_PUBLIC_KEY)
receiverPubkey == env.RECEIVER_PUBLIC_KEY

\* the mint the token accounts belong to: the generated one, or MINT_ADDRESS
MintId == IF script = ExistingMint THEN mintAddress ELSE "mint"

CreateMintAccountIx(lamports) ==
    createAccountInstruction("payer", "mint", lamports, Num(MINT_SIZE), TOKEN_PROGRAM_ID)

CreateTokenAccountAIx_MintSize(lamports) ==
    createAccountInstruction("payer", "tokenAccountA", lamports, Num(MINT_SIZE),
                             TOKEN_PROGRAM_ID)

CreateTokenAccountAIx(lamports) ==
    createAccountInstruction("payer", "tokenAccountA", lamports, Num(ACCOUNT_SIZE),
                             TOKEN_PROGRAM_ID)

CreateTokenAccountBIx(lamports) ==
    createAccountInstruction("payer", "tokenAccountB", lamports, Num(ACCOUNT_SIZE),
                             TOKEN_PROGRAM_ID)

InitMintIx_WithFreeze == createInitializeMintInstruction("mint", decimals, "payer", "payer")

InitMintIx == createInitializeMintInstruction("mint", decimals, "payer", NULL)

InitAccountAIx(mintPubkey) ==
    createInitializeAccountInstruction("tokenAccountA", mintPubkey, "payer")

InitAccountBIx(mintPubkey) ==
    createInitializeAccountInstruction("tokenAccountB", mintPubkey, receiverPubkey)

MintToIx(mintPubkey) ==
    createMintToInstruction(mintPubkey, "tokenAccountA", "payer", amountToMint)

TransferIx ==
    createTransferInstruction("tokenAccountA", "tokenAccountB", "payer", amountToTransfer)

\* the arguments of transaction.add(...), in order
AddOrder_TransferBeforeMintTo(s) ==
    IF s = MintManual THEN <<"initMintIx", "createMintAccountIx">>
    ELSE IF s = TokenManual
    THEN <<"createMintAccountIx", "createTokenAccountAIx", "createTokenAccountBIx",
           "initMintIx", "initAccountAIx", "initAccountBIx", "transferIx", "mintToIx">>
    ELSE <<"createTokenAccountAIx", "createTokenAccountBIx",
           "initAccountAIx", "initAccountBIx", "transferIx", "mintToIx">>

AddOrder(s) ==
    IF s = MintManual THEN <<"createMintAccountIx", "initMintIx">>
    ELSE IF s = TokenManual
    THEN <<"createMintAccountIx", "createTokenAccountAIx", "createTokenAccountBIx",
           "initMintIx", "initAccountAIx", "initAccountBIx", "mintToIx", "transferIx">>
    ELSE <<"createTokenAccountAIx", "createTokenAccountBIx",
           "initAccountAIx", "initAccountBIx", "mintToIx", "transferIx">>

Signers_PayerOnly(s) == <<"payer">>

\* the arguments of transaction.sign(...)
Signers(s) ==
    IF s = MintManual THEN <<"payer", "mint">>
    ELSE IF s = TokenManual THEN <<"payer", "mint", "tokenAccountA", "tokenAccountB">>
    ELSE <<"payer", "tokenAccountA", "tokenAccountB">>

MaxRent == 3
Sizes == {MINT_SIZE, ACCOUNT_SIZE}

\* what the node may answer to getMinimumBalanceForRentExemption: a number;
\* the client library accepts any number, a negative one included
RentReplies == {-1} \cup (1..MaxRent)
PayerBalances == {NumberToBigInt(2), NumberToBigInt(1000)}
Blockhashes == {"blockhashA", "blockhashB"}

LedgerIds == {"payer", "mint", "tokenAccountA", "tokenAccountB", "existingMint"}

\* what MINT_ADDRESS may name on the cluster
ExistingMintAccounts ==
    {NoAccount,
     MintAccount(NumberToBigInt(1000), decimals, "payer", BigZero),
     MintAccount(NumberToBigInt(1000), decimals, "receiver", BigZero),
     MintAccount(NumberToBigInt(1000), decimals, "payer", BigU64Max)}

NoReturn == [threw |-> FALSE, error |-> "none", programId |-> NULL, keys |-> <<>>,
             data |-> <<>>, allocated |-> 0, offset |-> 0, written |-> {}]

NoError == [uncaught |-> "none", caught |-> "none"]

Init ==
    /\ call = [kind |-> "none", args |-> <<>>, returned |-> FALSE]
    /\ ret = NoReturn
    /\ heap = <<>>
    /\ script \in Scripts
    /\ env \in [SENDER_SECRET_KEY : BOOLEAN, RECEIVER_PUBLIC_KEY : {Unset} \cup ReceiverKeys]
    /\ mintAddress \in IF script = ExistingMint THEN {Placeholder, "existingMint"} ELSE {NULL}
    /\ keypairs = {}
    /\ pc = "load"
    /\ err = NoError
    /\ ix = <<>>
    /\ transaction = NewTransaction
    /\ mintRent = Undefined
    /\ tokenAccountRent = Undefined
    /\ latestBlockhash = NULL
    /\ rawTx = NoWire
    /\ txSignature = NULL
    /\ rpc = <<>>
    /\ rent \in [Sizes -> RentReplies]
    /\ \E balance \in PayerBalances, m \in ExistingMintAccounts :
          /\ script # ExistingMint => m = NoAccount
          /\ accounts = [id \in LedgerIds |->
                            IF id = "payer" THEN SystemAccount(balance)
                            ELSE IF id = "existingMint" THEN m
                            ELSE NoAccount]
    /\ accounts0 = accounts
    /\ inflight = NoWire
    /\ txStatus = "none"

Exit(e) ==
    /\ pc' = "exited"
    /\ err' = [err EXCEPT !.uncaught = e]

Request(r) == rpc' = Append(rpc, r)

\* the module's top level: the constants are built, then main() is called
LoadModule ==
    /\ pc = "load"
    /\ IF script = ExistingMint /\ mintAddress = Placeholder
       THEN Exit("Non-base58 character")
       ELSE pc' = "main" /\ UNCHANGED err
    /\ UNCHANGED <<codecVars, configVars, localVars, rpc, clusterVars>>

\* Keypair.fromSecretKey(bs58.decode(senderSecretKey)), and in the
\* mint-creation script Keypair.generate() for the mint, right after the check
Loaded(s) == IF s = MintManual THEN {"payer", "mint"} ELSE {"payer"}

\* the Keypair.generate() calls that follow getBalance
Generated(s) ==
    IF s = TokenManual THEN {"mint", "tokenAccountA", "tokenAccountB"}
    ELSE {"tokenAccountA", "tokenAccountB"}

\* faulty variant: every script asks for both values
CheckEnv_BothEverywhere ==
    /\ pc = "main"
    /\ IF ~env.SENDER_SECRET_KEY \/ env.RECEIVER_PUBLIC_KEY = Unset
       THEN Exit("Missing env var") /\ UNCHANGED rpc
       ELSE /\ UNCHANGED err
            /\ IF script = MintManual
               THEN Request("getMinimumBalanceForRentExemption(82)") /\ pc' = "mintRent"
               ELSE Request("getBalance") /\ pc' = "getBalance"
    /\ keypairs' = IF pc' = "exited" THEN keypairs ELSE Loaded(script)
    /\ UNCHANGED <<codecVars, script, env, mintAddress, localVars, clusterVars>>

\* the environment check; the sender's key pair is loaded; then the first await
CheckEnv ==
    /\ pc = "main"
    /\ IF ~env.SENDER_SECRET_KEY \/ (script # MintManual /\ env.RECEIVER_PUBLIC_KEY = Unset)
       THEN Exit("Missing env var") /\ UNCHANGED rpc
       ELSE /\ UNCHANGED err
            /\ IF script = MintManual
               THEN Request("getMinimumBalanceForRentExemption(82)") /\ pc' = "mintRent"
               ELSE Request("getBalance") /\ pc' = "getBalance"
    /\ keypairs' = IF pc' = "exited" THEN keypairs ELSE Loaded(script)
    /\ UNCHANGED <<codecVars, script, env, mintAddress, localVars, clusterVars>>

GetBalanceReturns ==
    /\ script \in Scripts
    /\ pc = "getBalance"
    /\ keypairs' = keypairs \cup Generated(script)
    /\ IF script = TokenManual
       THEN Request("getMinimumBalanceForRentExemption(82)") /\ pc' = "mintRent"
       ELSE Request("getMinimumBalanceForRentExemption(165)") /\ pc' = "tokenAccountRent"
    /\ UNCHANGED <<codecVars, script, env, mintAddress, err, localVars, clusterVars>>

\* a request made outside the try block is rejected: main() rejects
RpcFails ==
    /\ pc \in {"getBalance", "mintRent", "tokenAccountRent", "getLatestBlockhash"}
    /\ Exit("rpc error")
    /\ UNCHANGED <<codecVars, configVars, localVars, rpc, clusterVars>>

\* faulty variant: an exception of a constructor does not end main()
Threw_Ignored(built) == FALSE

Threw(built) == \E n \in DOMAIN built : built[n].threw

MintRentReturns ==
    /\ pc = "mintRent"
    /\ mintRent' = Num(rent[MINT_SIZE])
    /\ LET Built(built) ==
               IF Threw(built)
               THEN Exit("constructor threw") /\ UNCHANGED <<ix, rpc>>
               ELSE /\ ix' = built
                    /\ UNCHANGED err
                    /\ IF script = TokenManual
                       THEN /\ Request("getMinimumBalanceForRentExemption(165)")
                            /\ pc' = "tokenAccountRent"
                       ELSE pc' = "add" /\ UNCHANGED rpc
       IN  Built(("createMintAccountIx" :> CreateMintAccountIx(mintRent'))
                 @@ (IF script = TokenManual THEN <<>> ELSE ("initMintIx" :> InitMintIx)))
    /\ UNCHANGED <<codecVars, configVars, transaction, tokenAccountRent, latestBlockhash,
                   rawTx, txSignature, clusterVars>>

TokenAccountRentReturns ==
    /\ pc = "tokenAccountRent"
    /\ tokenAccountRent' = Num(rent[ACCOUNT_SIZE])
    /\ LET Built(built) ==
               IF Threw(built)
               THEN Exit("constructor threw") /\ UNCHANGED ix
               ELSE ix' = ix @@ built /\ pc' = "add" /\ UNCHANGED err
       IN  Built(("createTokenAccountAIx" :> CreateTokenAccountAIx(tokenAccountRent'))
                 @@ ("createTokenAccountBIx" :> CreateTokenAccountBIx(tokenAccountRent'))
                 @@ (IF script = TokenManual THEN ("initMintIx" :> InitMintIx) ELSE <<>>)
                 @@ ("initAccountAIx" :> InitAccountAIx(MintId))
                 @@ ("initAccountBIx" :> InitAccountBIx(MintId))
                 @@ ("mintToIx" :> MintToIx(MintId))
                 @@ ("transferIx" :> TransferIx))
    /\ UNCHANGED <<codecVars, configVars, transaction, mintRent, latestBlockhash,
                   rawTx, txSignature, rpc, clusterVars>>

\* transaction.add(...), then the blockhash is asked for
AddInstructions ==
    /\ pc = "add"
    /\ transaction' = TransactionAdd(transaction,
                         [i \in 1..Len(AddOrder(script)) |-> Ix(ix[AddOrder(script)[i]])])
    /\ Request("getLatestBlockhash")
    /\ pc' = "getLatestBlockhash"
    /\ UNCHANGED <<codecVars, configVars, err, ix, mintRent, tokenAccountRent,
                   latestBlockhash, rawTx, txSignature, clusterVars>>

\* the blockhash arrives; recentBlockhash and feePayer are set
BlockhashReturns ==
    /\ pc = "getLatestBlockhash"
    /\ \E bh \in Blockhashes : latestBlockhash' = bh
    /\ transaction' = [transaction EXCEPT !.recentBlockhash = latestBlockhash',
                                          !.feePayer = "payer"]
    /\ pc' = "sign"
    /\ UNCHANGED <<codecVars, configVars, err, ix, mintRent, tokenAccountRent,
                   rawTx, txSignature, rpc, clusterVars>>

Sign ==
    /\ pc = "sign"
    /\ LET Signed(r) ==
               /\ transaction' = r.tx
               /\ IF r.err # "none" THEN Exit(r.err) ELSE pc' = "serialize" /\ UNCHANGED err
       IN  Signed(TransactionSign(transaction, Signers(script)))
    /\ UNCHANGED <<codecVars, configVars, ix, mintRent, tokenAccountRent,
                   latestBlockhash, rawTx, txSignature, rpc, clusterVars>>

Serialize ==
    /\ pc = "serialize"
    /\ LET Serialized(r) ==
               IF r.err # "none"
               THEN Exit(r.err) /\ UNCHANGED rawTx
               ELSE rawTx' = r.wire /\ pc' = "send" /\ UNCHANGED err
       IN  Serialized(TransactionSerialize(transaction))
    /\ UNCHANGED <<codecVars, configVars, ix, transaction, mintRent, tokenAccountRent,
                   latestBlockhash, txSignature, rpc, clusterVars>>

\* faulty variant: the transaction is sent before it is signed and serialized
SendRawTransaction_BeforeSign ==
    /\ pc = "sign"
    /\ Request("sendRawTransaction")
    /\ inflight' = rawTx
    /\ pc' = "awaitSend"
    /\ UNCHANGED <<codecVars, configVars, err, localVars, accounts, accounts0, rent, txStatus>>

\* try { connection.sendRawTransaction(rawTx, ...)
SendRawTransaction ==
    /\ pc = "send"
    /\ Request("sendRawTransaction")
    /\ inflight' = rawTx
    /\ pc' = "awaitSend"
    /\ UNCHANGED <<codecVars, configVars, err, localVars, accounts, accounts0, rent, txStatus>>

\* the node accepted and broadcast the transaction; confirmation is asked for
SendReturns ==
    /\ pc = "awaitSend"
    /\ txSignature' = inflight.signatures[1]
    /\ txStatus' = "pending"
    /\ Request("confirmTransaction")
    /\ pc' = "awaitConfirm"
    /\ UNCHANGED <<codecVars, configVars, err, ix, transaction, mintRent, tokenAccountRent,
                   latestBlockhash, rawTx, accounts, accounts0, rent, inflight>>

\* faulty variant: the rejection of sendRawTransaction is logged and the
\* confirmation is asked for all the same
SendFails_ConfirmAnyway ==
    /\ pc = "awaitSend"
    /\ txStatus' \in {"none", "pending"}
    /\ err' = [err EXCEPT !.caught = "SendTransactionError"]
    /\ Request("confirmTransaction")
    /\ pc' = "awaitConfirm"
    /\ UNCHANGED <<codecVars, configVars, localVars, accounts, accounts0, rent, inflight>>

\* sendRawTransaction rejects: with a SendTransactionError (the node refused
\* the transaction) or with another error (the node was not reached); the
\* transaction may or may not have reached the cluster
SendFails ==
    /\ pc = "awaitSend"
    /\ txStatus' \in {"none", "pending"}
    /\ \E e \in {"SendTransactionError", "network error"} :
          err' = [err EXCEPT !.caught = e]
    /\ pc' = "catch"
    /\ UNCHANGED <<codecVars, configVars, localVars, rpc, accounts, accounts0, rent, inflight>>

SignaturesValid(wire) ==
    /\ Len(wire.signatures) = wire.message.numRequiredSignatures
    /\ \A i \in 1..Len(wire.signatures) : wire.signatures[i] = wire.message.accountKeys[i]

\* the cluster executes the transaction
ClusterProcess ==
    /\ txStatus = "pending"
    /\ IF SignaturesValid(inflight)
       THEN LET Processed(r) ==
                    /\ accounts' = r.accounts
                    /\ txStatus' = IF r.ok THEN "finalized" ELSE "failed"
            IN  Processed(ProcessTransaction(accounts, rent, inflight))
       ELSE accounts' = accounts /\ txStatus' = "failed"
    /\ UNCHANGED <<codecVars, configVars, pc, err, localVars, rpc, accounts0, rent, inflight>>

\* the blockhash expires before the transaction is executed
ClusterExpire ==
    /\ txStatus = "pending"
    /\ txStatus' = "expired"
    /\ UNCHANGED <<codecVars, configVars, pc, err, localVars, rpc, accounts, accounts0,
                   rent, inflight>>

\* confirmTransaction resolves: the result is logged (also when it holds an error)
ConfirmReturns ==
    /\ pc = "awaitConfirm"
    /\ txStatus \in {"finalized", "failed"}
    /\ pc' = "done"
    /\ UNCHANGED <<codecVars, configVars, err, localVars, rpc, clusterVars>>

\* confirmTransaction rejects (expired blockhash, network error)
ConfirmFails ==
    /\ pc = "awaitConfirm"
    /\ err' = [err EXCEPT !.caught = "confirmTransaction failed"]
    /\ pc' = "catch"
    /\ UNCHANGED <<codecVars, configVars, localVars, rpc, clusterVars>>

\* } catch (e) { console.error(...); the logs are printed: those the error
\* carries, or, for a SendTransactionError without them, those
\* await e.getLogs(connection) fetches from the node
Catch ==
    /\ pc = "catch"
    /\ \/ pc' = "done" /\ UNCHANGED rpc
       \/ /\ err.caught = "SendTransactionError"
          /\ Request("getTransaction")
          /\ pc' = "getLogs"
    /\ UNCHANGED <<codecVars, configVars, err, localVars, clusterVars>>

\* e.getLogs(connection) resolves: the logs are printed and main() returns
GetLogsReturns ==
    /\ pc = "getLogs"
    /\ pc' = "done"
    /\ UNCHANGED <<codecVars, configVars, err, localVars, rpc, clusterVars>>

\* e.getLogs(connection) rejects inside the catch block: main() rejects
GetLogsFails ==
    /\ pc = "getLogs"
    /\ Exit("getLogs rejected")
    /\ UNCHANGED <<codecVars, configVars, localVars, rpc, clusterVars>>

Next ==
    \/ LoadModule
    \/ CheckEnv
    \/ GetBalanceReturns
    \/ RpcFails
    \/ MintRentReturns
    \/ TokenAccountRentReturns
    \/ AddInstructions
    \/ BlockhashReturns
    \/ Sign
    \/ Serialize
    \/ SendRawTransaction
    \/ SendReturns
    \/ SendFails
    \/ ClusterProcess
    \/ ClusterExpire
    \/ ConfirmReturns
    \/ ConfirmFails
    \/ Catch
    \/ GetLogsReturns
    \/ GetLogsFails

Spec == Init /\ [][Next]_vars

----------------------------------------------------------------------------
(* main() of spl-token-basic.ts: the same token flow through the helper     *)
(* functions of @solana/spl-token.  Each helper builds, signs, sends and    *)
(* confirms a transaction of its own before it returns.                     *)

TokenBasic == "spl-token-basic"

\* the associated token account of a wallet for the new mint: one address per
\* wallet, derived from the wallet and the mint
AssociatedTokenAddress(owner) ==
    IF owner = "payer" THEN "tokenAccountA" ELSE "tokenAccountB"

\* a helper's transaction, paid and signed by the payer, as the cluster
\* executes it on the accounts l
SendAndConfirm(l, items, signers) ==
    LET Processed(w) ==
            IF w.err # "none" THEN [ok |-> FALSE, accounts |-> l, failedAt |-> 0]
            ELSE ProcessTransaction(l, rent, w.wire)
        Signed(tx) == Processed(TransactionSerialize(TransactionSign(tx, signers).tx))
    IN  Signed([TransactionAdd(NewTransaction, items) EXCEPT
                    !.recentBlockhash = "blockhashA", !.feePayer = "payer"])

\* faulty variant: a helper that fails takes back what the earlier helpers did
HelperCall_Rollback(items, signers, request, next) ==
    /\ Request(request)
    /\ LET Confirmed(r) ==
               IF r.ok THEN accounts' = r.accounts /\ pc' = next /\ UNCHANGED err
               ELSE Exit("helper rejected") /\ accounts' = accounts0
       IN  Confirmed(SendAndConfirm(accounts, items, signers))
    /\ UNCHANGED <<codecVars, configVars, localVars, accounts0, rent, inflight, txStatus>>

\* await helper(...): the helper's transaction is confirmed and main() goes
\* on, or the helper rejects and so does main()
HelperCall(items, signers, request, next) ==
    /\ Request(request)
    /\ LET Confirmed(r) ==
               IF r.ok THEN accounts' = r.accounts /\ pc' = next /\ UNCHANGED err
               ELSE Exit("helper rejected") /\ UNCHANGED accounts
       IN  Confirmed(SendAndConfirm(accounts, items, signers))
    /\ UNCHANGED <<codecVars, configVars, localVars, accounts0, rent, inflight, txStatus>>

\* the balance is logged, then
\* createMint(connection, payer, payer.publicKey, null, decimals)
CreateMint ==
    /\ script = TokenBasic
    /\ pc = "getBalance"
    /\ HelperCall(<<Ix(CreateMintAccountIx(Num(rent[MINT_SIZE]))), Ix(InitMintIx)>>,
                  <<"payer", "mint">>, "createMint", "senderTokenAccount")

\* getOrCreateAssociatedTokenAccount(connection, payer, mint, owner): the
\* account at the owner's associated address is returned if it exists, and
\* created first if it does not
getOrCreateAssociatedTokenAccount(owner, next) ==
    LET GetOrCreate(address) ==
            IF accounts[address].state = "token"
            THEN /\ Request("getAccount")
                 /\ IF accounts[address].mint = "mint" /\ accounts[address].tokenOwner = owner
                    THEN pc' = next /\ UNCHANGED err
                    ELSE Exit("helper rejected")
                 /\ UNCHANGED <<codecVars, configVars, localVars, clusterVars>>
            ELSE HelperCall(<<Ix(createAccountInstruction("payer", address,
                                     Num(rent[ACCOUNT_SIZE]), Num(ACCOUNT_SIZE),
                                     TOKEN_PROGRAM_ID)),
                              Ix(createInitializeAccountInstruction(address, "mint", owner))>>,
                            <<"payer", address>>,
                            "getOrCreateAssociatedTokenAccount", next)
    IN  GetOrCreate(AssociatedTokenAddress(owner))

SenderTokenAccount ==
    /\ pc = "senderTokenAccount"
    /\ getOrCreateAssociatedTokenAccount("payer", "receiverTokenAccount")

ReceiverTokenAccount ==
    /\ pc = "receiverTokenAccount"
    /\ getOrCreateAssociatedTokenAccount(receiverPubkey, "mintTo")

\* mintTo(connection, payer, mint, senderTokenAccount.address, payer, amountToMint)
MintTo ==
    /\ pc = "mintTo"
    /\ HelperCall(<<Ix(createMintToInstruction("mint", AssociatedTokenAddress("payer"),
                                               "payer", amountToMint))>>,
                  <<"payer">>, "mintTo", "senderInfo")

\* getAccount(connection, address): the balances are read and logged
GetAccount ==
    /\ pc \in {"senderInfo", "finalSenderInfo", "finalReceiverInfo"}
    /\ Request("getAccount")
    /\ pc' = CASE pc = "senderInfo" -> "transfer"
               [] pc = "finalSenderInfo" -> "finalReceiverInfo"
               [] pc = "finalReceiverInfo" -> "done"
    /\ UNCHANGED <<codecVars, configVars, err, localVars, clusterVars>>

\* faulty variant: the transfer is left out
Transfer_LeftOut ==
    /\ pc = "transfer"
    /\ pc' = "finalSenderInfo"
    /\ UNCHANGED <<codecVars, configVars, err, localVars, rpc, clusterVars>>

\* transfer(connection, payer, senderTokenAccount.address,
\*          receiverTokenAccount.address, payer, amountToTransfer)
Transfer ==
    /\ pc = "transfer"
    /\ HelperCall(<<Ix(createTransferInstruction(AssociatedTokenAddress("payer"),
                                                 AssociatedTokenAddress(receiverPubkey),
                                                 "payer", amountToTransfer))>>,
                  <<"payer">>, "transfer", "finalSenderInfo")

\* a request of main() or of a helper is rejected: main() rejects, and what
\* the earlier helpers did stays done
HelperFails ==
    /\ script = TokenBasic
    /\ pc \in {"getBalance", "senderTokenAccount", "receiverTokenAccount", "mintTo",
               "senderInfo", "transfer", "finalSenderInfo", "finalReceiverInfo"}
    /\ Exit("rpc error")
    /\ UNCHANGED <<codecVars, configVars, localVars, rpc, clusterVars>>

HelperInit ==
    /\ call = [kind |-> "none", args |-> <<>>, returned |-> FALSE]
    /\ ret = NoReturn
    /\ heap = <<>>
    /\ script = TokenBasic
    /\ env \in [SENDER_SECRET_KEY : BOOLEAN, RECEIVER_PUBLIC_KEY : {Unset} \cup ReceiverKeys]
    /\ mintAddress = NULL
    /\ keypairs = {}
    /\ pc = "main"
    /\ err = NoError
    /\ ix = <<>>
    /\ transaction = NewTransaction
    /\ mintRent = Undefined
    /\ tokenAccountRent = Undefined
    /\ latestBlockhash = NULL
    /\ rawTx = NoWire
    /\ txSignature = NULL
    /\ rpc = <<>>
    /\ rent \in [Sizes -> 1..MaxRent]
    /\ \E balance \in PayerBalances :
          accounts = [id \in LedgerIds |->
                         IF id = "payer" THEN SystemAccount(balance) ELSE NoAccount]
    /\ accounts0 = accounts
    /\ inflight = NoWire
    /\ txStatus = "none"

HelperNext ==
    \/ CheckEnv
    \/ CreateMint
    \/ SenderTokenAccount
    \/ ReceiverTokenAccount
    \/ MintTo
    \/ GetAccount
    \/ Transfer
    \/ HelperFails

HelperSpec == HelperInit /\ [][HelperNext]_vars

\* the four scripts together
ScriptsInit == Init \/ HelperInit

ScriptsNext == Next \/ HelperNext

ScriptsSpec == ScriptsInit /\ [][ScriptsNext]_vars

----------------------------------------------------------------------------
(* Codec exploration: the constructors applied to arguments drawn from      *)
(* small sets.  The state is the last call and what it returned.            *)

MaxCodecIds == 3

CodecIdList == <<"payer", TOKEN_PROGRAM_ID, "mint", "tokenAccountA", SystemProgramId>>
CodecIds == {CodecIdList[i] : i \in 1..Min(MaxCodecIds, Len(CodecIdList))}
CodecIdsOrNull == CodecIds \cup {NULL}

\* 0x0102030405060708: every byte different
BigBytes18 == Big(FALSE, <<1800, 1286, 772, 258, 0>>)

AmountSamples ==
    {BigZero, NumberToBigInt(1), NumberToBigInt(258), BigBytes18,
     BigMulSmall(BigPow10(9), 10), BigU64Max, BigTwo64, BigMinusOne}

\* lamports and space are number | bigint
SizeSamples ==
    {Num(0), Num(82), Num(165), Num(1461600), Num(-1), BigU64Max, BigTwo64}

DecimalsSamples == {-1, 0, 9, 255, 256}

Call(kind, args) == [kind |-> kind, args |-> args, returned |-> FALSE]

CodecCalls ==
    {Call("AccountAllocation", <<f, a, l, sp, o>>) :
        f \in CodecIds, a \in CodecIds, l \in SizeSamples, sp \in SizeSamples,
        o \in CodecIdsOrNull}
    \cup {Call("InitializeMint", <<m, d, a, fz>>) :
        m \in CodecIds, d \in DecimalsSamples, a \in CodecIdsOrNull, fz \in CodecIdsOrNull}
    \cup {Call("InitializeAccount", <<t, m, o>>) :
        t \in CodecIds, m \in CodecIds, o \in CodecIds}
    \cup {Call("MintTo", <<m, d, a, amt>>) :
        m \in CodecIds, d \in CodecIds, a \in CodecIds, amt \in AmountSamples}
    \cup {Call("Transfer", <<sr, d, o, amt>>) :
        sr \in CodecIds, d \in CodecIds, o \in CodecIds, amt \in AmountSamples}

\* the arguments are drawn, the constructor has not run yet
CodecInit ==
    /\ call \in CodecCalls
    /\ ret = NoReturn
    /\ heap = <<>>
    /\ script = TokenManual
    /\ env = [SENDER_SECRET_KEY |-> TRUE, RECEIVER_PUBLIC_KEY |-> "receiver"]
    /\ mintAddress = NULL
    /\ keypairs = {}
    /\ pc = "codec"
    /\ err = NoError
    /\ ix = <<>>
    /\ transaction = NewTransaction
    /\ mintRent = Undefined
    /\ tokenAccountRent = Undefined
    /\ latestBlockhash = NULL
    /\ rawTx = NoWire
    /\ txSignature = NULL
    /\ rpc = <<>>
    /\ rent = [sz \in Sizes |-> 1]
    /\ accounts = [id \in LedgerIds |-> NoAccount]
    /\ accounts0 = accounts
    /\ inflight = NoWire
    /\ txStatus = "none"

Pending(kind) == call.kind = kind /\ ~call.returned

Returned ==
    /\ call' = [call EXCEPT !.returned = TRUE]
    /\ UNCHANGED <<heap, scriptVars>>

CallCreateAccount ==
    /\ Pending("AccountAllocation")
    /\ ret' = createAccountInstruction(call.args[1], call.args[2], call.args[3],
                                       call.args[4], call.args[5])
    /\ Returned

CallInitializeMint ==
    /\ Pending("InitializeMint")
    /\ ret' = createInitializeMintInstruction(call.args[1], call.args[2], call.args[3],
                                              call.args[4])
    /\ Returned

CallInitializeAccount ==
    /\ Pending("InitializeAccount")
    /\ ret' = createInitializeAccountInstruction(call.args[1], call.args[2], call.args[3])
    /\ Returned

CallMintTo ==
    /\ Pending("MintTo")
    /\ ret' = createMintToInstruction(call.args[1], call.args[2], call.args[3], call.args[4])
    /\ Returned

CallTransfer ==
    /\ Pending("Transfer")
    /\ ret' = createTransferInstruction(call.args[1], call.args[2], call.args[3], call.args[4])
    /\ Returned

CodecNext ==
    \/ CallCreateAccount
    \/ CallInitializeMint
    \/ CallInitializeAccount
    \/ CallMintTo
    \/ CallTransfer

CodecSpec == CodecInit /\ [][CodecNext]_vars

----------------------------------------------------------------------------
(* The copies of the constructors: one script's copy is called twice with   *)
(* the same arguments, then the caller writes into the payload of the first *)
(* descriptor.  A descriptor holds its payload by the address of the        *)
(* Buffer.                                                                  *)

\* the constructors a script defines
KindsOf(s) ==
    IF s = MintManual THEN {"AccountAllocation", "InitializeMint"}
    ELSE IF s = ExistingMint THEN {"AccountAllocation", "InitializeAccount", "MintTo", "Transfer"}
    ELSE {"AccountAllocation", "InitializeMint", "InitializeAccount", "MintTo", "Transfer"}

\* script s's copy of the constructor of call c, applied to c's arguments
ConstructorOf(s, c) ==
    LET a == c.args
    IN  CASE c.kind = "AccountAllocation" /\ s = TokenManual ->
                 createAccountInstruction(a[1], a[2], a[3], a[4], a[5])
          [] c.kind = "AccountAllocation" /\ s = MintManual ->
                 MintManual_createAccountInstruction(a[1], a[2], a[3], a[4], a[5])
          [] c.kind = "AccountAllocation" /\ s = ExistingMint ->
                 ExistingMint_createAccountInstruction(a[1], a[2], a[3], a[4], a[5])
          [] c.kind = "InitializeMint" /\ s = TokenManual ->
                 createInitializeMintInstruction(a[1], a[2], a[3], a[4])
          [] c.kind = "InitializeMint" /\ s = MintManual ->
                 MintManual_createInitializeMintInstruction(a[1], a[2], a[3], a[4])
          [] c.kind = "InitializeAccount" /\ s = TokenManual ->
                 createInitializeAccountInstruction(a[1], a[2], a[3])
          [] c.kind = "InitializeAccount" /\ s = ExistingMint ->
                 ExistingMint_createInitializeAccountInstruction(a[1], a[2], a[3])
          [] c.kind = "MintTo" /\ s = TokenManual ->
                 createMintToInstruction(a[1], a[2], a[3], a[4])
          [] c.kind = "MintTo" /\ s = ExistingMint ->
                 ExistingMint_createMintToInstruction(a[1], a[2], a[3], a[4])
          [] c.kind = "Transfer" /\ s = TokenManual ->
                 createTransferInstruction(a[1], a[2], a[3], a[4])
          [] c.kind = "Transfer" /\ s = ExistingMint ->
                 ExistingMint_createTransferInstruction(a[1], a[2], a[3], a[4])

\* faulty variant: one module-level Buffer serves every call
BufferAddress_Shared(h) == 1

\* const data = Buffer.alloc(n) in the constructor's body: memory no earlier
\* Buffer occupies
BufferAddress(h) == Len(h) + 1

\* the heap with the bytes stored at the address
Allocated(h, address, bytes) ==
    IF address > Len(h) THEN Append(h, bytes) ELSE [h EXCEPT ![address] = bytes]

CopiesInit ==
    /\ script \in Scripts
    /\ call \in {c \in CodecCalls : c.kind \in KindsOf(script)}
    /\ ret = NoReturn
    /\ heap = <<>>
    /\ env = [SENDER_SECRET_KEY |-> TRUE, RECEIVER_PUBLIC_KEY |-> "receiver"]
    /\ mintAddress = IF script = ExistingMint THEN "existingMint" ELSE NULL
    /\ keypairs = {}
    /\ pc = "construct"
    /\ err = NoError
    /\ ix = <<>>
    /\ transaction = NewTransaction
    /\ mintRent = Undefined
    /\ tokenAccountRent = Undefined
    /\ latestBlockhash = NULL
    /\ rawTx = NoWire
    /\ txSignature = NULL
    /\ rpc = <<>>
    /\ rent = [sz \in Sizes |-> 1]
    /\ accounts = [id \in LedgerIds |-> NoAccount]
    /\ accounts0 = accounts
    /\ inflight = NoWire
    /\ txStatus = "none"

\* the script's constructor is called with the arguments: it throws, or it
\* returns a descriptor whose payload is a Buffer of its own
Construct ==
    /\ pc = "construct"
    /\ Len(ix) < 2
    /\ LET Constructed(r) ==
               /\ ret' = r
               /\ IF r.threw
                  THEN Exit(r.error) /\ UNCHANGED <<heap, ix>>
                  ELSE /\ heap' = Allocated(heap, BufferAddress(heap), r.data)
                       /\ ix' = Append(ix, [programId |-> r.programId, keys |-> r.keys,
                                            data |-> BufferAddress(heap)])
                       /\ UNCHANGED <<pc, err>>
       IN  Constructed(ConstructorOf(script, call))
    /\ call' = [call EXCEPT !.returned = TRUE]
    /\ UNCHANGED <<configVars, transaction, mintRent, tokenAccountRent, latestBlockhash,
                   rawTx, txSignature, rpc, clusterVars>>

\* the caller overwrites the first byte of the first descriptor's payload
WriteThrough ==
    /\ pc = "construct"
    /\ Len(ix) = 2
    /\ heap' = [heap EXCEPT ![ix[1].data] = <<255>> \o Tail(@)]
    /\ pc' = "written"
    /\ UNCHANGED <<call, ret, configVars, err, localVars, rpc, clusterVars>>

CopiesNext == Construct \/ WriteThrough

CopiesSpec == CopiesInit /\ [][CopiesNext]_vars

----------------------------------------------------------------------------
(* The four fixed-width writes of the constructors, each applied to a       *)
(* zero-filled buffer of any length at any offset.                          *)

MaxBufferLen == 33

WriteWidth(kind) ==
    CASE kind = "writeUInt8" -> 1
      [] kind = "writeUInt32LE" -> 4
      [] kind = "writeBigUInt64LE" -> 8
      [] kind = "copy" -> 32

WriteCalls ==
    {Call(kind, <<size, offset>>) :
        kind \in {"writeUInt8", "writeUInt32LE", "writeBigUInt64LE", "copy"},
        size \in 0..MaxBufferLen, offset \in 0..MaxBufferLen}

WriteInit ==
    /\ call \in WriteCalls
    /\ ret = NoReturn
    /\ heap = <<>>
    /\ script = TokenManual
    /\ env = [SENDER_SECRET_KEY |-> TRUE, RECEIVER_PUBLIC_KEY |-> "receiver"]
    /\ mintAddress = NULL
    /\ keypairs = {}
    /\ pc = "write"
    /\ err = NoError
    /\ ix = <<>>
    /\ transaction = NewTransaction
    /\ mintRent = Undefined
    /\ tokenAccountRent = Undefined
    /\ latestBlockhash = NULL
    /\ rawTx = NoWire
    /\ txSignature = NULL
    /\ rpc = <<>>
    /\ rent = [sz \in Sizes |-> 1]
    /\ accounts = [id \in LedgerIds |-> NoAccount]
    /\ accounts0 = accounts
    /\ inflight = NoWire
    /\ txStatus = "none"

\* data.writeUInt8(255, offset)
CallWriteUInt8 ==
    /\ Pending("writeUInt8")
    /\ ret' = writeUInt8(BufferAlloc(call.args[1]), 255, call.args[2])
    /\ Returned

\* data.writeUInt32LE(0x01020304, offset)
CallWriteUInt32LE ==
    /\ Pending("writeUInt32LE")
    /\ ret' = writeUInt32LE(BufferAlloc(call.args[1]), 16909060, call.args[2])
    /\ Returned

\* data.writeBigUInt64LE(0x0102030405060708n, offset)
CallWriteBigUInt64LE ==
    /\ Pending("writeBigUInt64LE")
    /\ ret' = writeBigUInt64LE(BufferAlloc(call.args[1]), BigBytes18, call.args[2])
    /\ Returned

\* payer.publicKey.toBuffer().copy(data, offset)
CallCopy ==
    /\ Pending("copy")
    /\ ret' = copyPubkey(BufferAlloc(call.args[1]), "payer", call.args[2])
    /\ Returned

WriteNext ==
    \/ CallWriteUInt8
    \/ CallWriteUInt32LE
    \/ CallWriteBigUInt64LE
    \/ CallCopy

WriteSpec == WriteInit /\ [][WriteNext]_vars

----------------------------------------------------------------------------
(* Properties of the instruction constructors (CodecSpec).               *)

Built == call.returned /\ ~ret.threw

Ref(pubkey, isSigner, isWritable) ==
    [pubkey |-> pubkey, isSigner |-> isSigner, isWritable |-> isWritable]

\* C1: every constructor returns the account references of the layout table,
\* in its order and with its signer/writable flags, whatever identities are
\* supplied (the same identity in two positions keeps each position's flags).
C1_AccountRoles ==
    Built =>
        LET a == call.args
        IN  /\ call.kind = "AccountAllocation" =>
                 ret.keys = <<Ref(a[1], TRUE, TRUE), Ref(a[2], TRUE, TRUE)>>
            /\ call.kind = "InitializeMint" =>
                 ret.keys = <<Ref(a[1], FALSE, TRUE), Ref(SYSVAR_RENT_PUBKEY, FALSE, FALSE)>>
            /\ call.kind = "InitializeAccount" =>
                 ret.keys = <<Ref(a[1], FALSE, TRUE), Ref(a[2], FALSE, FALSE),
                              Ref(a[3], FALSE, FALSE), Ref(SYSVAR_RENT_PUBKEY, FALSE, FALSE)>>
            /\ call.kind = "MintTo" =>
                 ret.keys = <<Ref(a[1], FALSE, TRUE), Ref(a[2], FALSE, TRUE),
                              Ref(a[3], TRUE, FALSE)>>
            /\ call.kind = "Transfer" =>
                 ret.keys = <<Ref(a[1], FALSE, TRUE), Ref(a[2], FALSE, TRUE),
                              Ref(a[3], TRUE, FALSE)>>

\* a Transfer whose source and owner are the same identity: writable and not
\* a signer in position 1, signer and not writable in position 3
C1_Witness ==
    /\ Built
    /\ call.kind = "Transfer"
    /\ call.args[1] = call.args[3]
    /\ ret.keys[1].isWritable /\ ~ret.keys[1].isSigner
    /\ ret.keys[3].isSigner /\ ~ret.keys[3].isWritable

SchemaLength(kind, args) ==
    CASE kind = "AccountAllocation" -> 52
      [] kind = "InitializeMint" -> IF args[4] = NULL THEN 35 ELSE 67
      [] kind = "InitializeAccount" -> 1
      [] kind = "MintTo" -> 9
      [] kind = "Transfer" -> 9

\* C2: the allocated length, the final running offset and the schema length
\* agree for every kind and both freeze-authority cases, and the writes cover
\* the buffer exactly (every position written, none beyond the end).
C2_LengthEqualsOffset ==
    Built =>
        /\ ret.allocated = SchemaLength(call.kind, call.args)
        /\ ret.offset = ret.allocated
        /\ Len(ret.data) = ret.allocated
        /\ ret.written = 1..ret.allocated

C2_Witness ==
    /\ Built
    /\ call.kind = "InitializeMint"
    /\ call.args[4] # NULL
    /\ ret.offset = 67
    /\ ret.written = 1..67

\* C3: InitializeMint with a freeze authority is 67 bytes, 32 more than the
\* 35 bytes built from the same arguments without one; byte 34 is 1 when
\* present and 0 when absent; the buffer has the length it was allocated with.
C3_FreezeAuthority ==
    (Built /\ call.kind = "InitializeMint") =>
        LET a == call.args
            absent == createInitializeMintInstruction(a[1], a[2], a[3], NULL)
        IN  /\ Len(ret.data) = ret.allocated
            /\ ~absent.threw
            /\ Len(absent.data) = 35 /\ absent.data[34 + 1] = 0
            /\ a[4] # NULL =>
                 /\ Len(ret.data) = 67
                 /\ Len(ret.data) = Len(absent.data) + 32
                 /\ ret.data[34 + 1] = 1
                 /\ SubSeq(ret.data, 1, 34) = SubSeq(absent.data, 1, 34)
                 /\ SubSeq(ret.data, 36, 67) = PubkeyToBuffer(a[4])
            /\ a[4] = NULL => ret = absent

C3_Witness ==
    /\ Built
    /\ call.kind = "InitializeMint"
    /\ call.args[4] # NULL
    /\ Len(ret.data) = 67
    /\ ret.data[35] = 1

\* the unsigned 64-bit value of the eight bytes at 0-based offset, read back
ReadBigUInt64LE(data, offset) ==
    Big(FALSE, [k \in 1..5 |-> IF k = 5 THEN 0
                               ELSE data[offset + 2 * k - 1] + 256 * data[offset + 2 * k]])

AmountTag(kind) == IF kind = "MintTo" THEN 7 ELSE 3

\* C4: MintTo and Transfer put the tag (7, 3) in byte 0 and the amount in
\* bytes 1..8, least significant byte first; 0 and 2^64 - 1 are encoded,
\* -1 and 2^64 make the constructor throw instead of wrapping.
C4_AmountEncoding ==
    (call.returned /\ call.kind \in {"MintTo", "Transfer"}) =>
        LET amt == call.args[4]
        IN  /\ amt \in {BigZero, BigU64Max} => ~ret.threw
            /\ amt \in {BigMinusOne, BigTwo64} => ret.threw /\ ret.error = "ERR_OUT_OF_RANGE"
            /\ ret.threw <=> ~(~amt.neg /\ amt.limbs[5] = 0)
            /\ ~ret.threw =>
                 /\ Len(ret.data) = 9
                 /\ ret.data[1] = AmountTag(call.kind)
                 /\ ReadBigUInt64LE(ret.data, 1) = amt
                 /\ amt = BigBytes18 => SubSeq(ret.data, 2, 9) = <<8, 7, 6, 5, 4, 3, 2, 1>>
                 /\ amt = BigMulSmall(BigPow10(9), 10) =>
                      SubSeq(ret.data, 2, 9) = <<0, 228, 11, 84, 2, 0, 0, 0>>
                 /\ amt = BigU64Max => SubSeq(ret.data, 2, 9) = [k \in 1..8 |-> 255]

\* 2^64 was passed to MintTo and the constructor threw
C4_Witness ==
    /\ call.returned
    /\ call.kind = "MintTo"
    /\ call.args[4] = BigTwo64
    /\ ret.threw

\* C9: AccountAllocation targets the system program and the four token
\* instructions target the token program; the two identities differ (as names
\* and as bytes), also when the token program is the owner argument.
C9_ProgramIds ==
    /\ SystemProgramId # TOKEN_PROGRAM_ID
    /\ PubkeyToBuffer(SystemProgramId) # PubkeyToBuffer(TOKEN_PROGRAM_ID)
    /\ Built =>
         ret.programId = IF call.kind = "AccountAllocation"
                         THEN SystemProgramId ELSE TOKEN_PROGRAM_ID

C9_Witness ==
    /\ Built
    /\ call.kind = "AccountAllocation"
    /\ call.args[5] = TOKEN_PROGRAM_ID
    /\ ret.programId = SystemProgramId
    /\ SubSeq(ret.data, 21, 52) = PubkeyToBuffer(TOKEN_PROGRAM_ID)

\* the constructor of a call, applied to its arguments
Encode(c) ==
    CASE c.kind = "AccountAllocation" ->
            createAccountInstruction(c.args[1], c.args[2], c.args[3], c.args[4], c.args[5])
      [] c.kind = "InitializeMint" ->
            createInitializeMintInstruction(c.args[1], c.args[2], c.args[3], c.args[4])
      [] c.kind = "InitializeAccount" ->
            createInitializeAccountInstruction(c.args[1], c.args[2], c.args[3])
      [] c.kind = "MintTo" ->
            createMintToInstruction(c.args[1], c.args[2], c.args[3], c.args[4])
      [] c.kind = "Transfer" ->
            createTransferInstruction(c.args[1], c.args[2], c.args[3], c.args[4])

\* the arguments of a call that the layout puts into the payload
PayloadFields(c) ==
    CASE c.kind = "AccountAllocation" -> <<BigInt(c.args[3]), BigInt(c.args[4]), c.args[5]>>
      [] c.kind = "InitializeMint" -> <<c.args[2], c.args[3], c.args[4]>>
      [] c.kind = "InitializeAccount" -> <<>>
      [] c.kind = "MintTo" -> <<c.args[4]>>
      [] c.kind = "Transfer" -> <<c.args[4]>>

\* the arguments that go into the account references only
ReferenceArgs(c) ==
    CASE c.kind = "AccountAllocation" -> <<c.args[1], c.args[2]>>
      [] c.kind = "InitializeMint" -> <<c.args[1]>>
      [] OTHER -> <<c.args[1], c.args[2], c.args[3]>>

\* a payload read field by field at the offsets of the layout table:
\* its length, its tag and its fields
Decode(kind, data) ==
    CASE kind = "AccountAllocation" ->
            [length |-> Len(data), tag |-> ReadUInt32LE(data, 0),
             fields |-> <<ReadBigUInt64LE(data, 4), ReadBigUInt64LE(data, 12),
                          PubkeyFromBytes(SubSeq(data, 21, 52))>>]
      [] kind = "InitializeMint" ->
            [length |-> Len(data), tag |-> data[1],
             fields |-> <<data[2], PubkeyFromBytes(SubSeq(data, 3, 34)),
                          IF data[35] = 1 THEN PubkeyFromBytes(SubSeq(data, 36, 67))
                          ELSE NULL>>]
      [] kind = "InitializeAccount" ->
            [length |-> Len(data), tag |-> data[1], fields |-> <<>>]
      [] kind \in {"MintTo", "Transfer"} ->
            [length |-> Len(data), tag |-> data[1],
             fields |-> <<ReadBigUInt64LE(data, 1)>>]

TagOf(kind) ==
    CASE kind = "AccountAllocation" -> 0
      [] kind = "InitializeMint" -> 0
      [] kind = "InitializeAccount" -> 1
      [] kind = "MintTo" -> 7
      [] kind = "Transfer" -> 3

\* C16: the payload of every call that returns decodes, by the layout, to the
\* schema length, the kind's tag and exactly the values passed (lamports and
\* space as unsigned 64-bit integers, decimals, identities, freeze authority
\* present or absent, amount); and no call of the same kind with other
\* payload fields yields the same payload.
C16_RoundTrip ==
    Built =>
        /\ Decode(call.kind, ret.data) =
              [length |-> SchemaLength(call.kind, call.args), tag |-> TagOf(call.kind),
               fields |-> PayloadFields(call)]
        /\ \A o \in CodecCalls :
              (/\ o.kind = call.kind
               /\ ReferenceArgs(o) = ReferenceArgs(call)
               /\ PayloadFields(o) # PayloadFields(call)) =>
                    LET Differs(r) == r.threw \/ r.data # ret.data
                    IN  Differs(Encode(o))

\* an InitializeMint with 255 decimals and a freeze authority other than
\* the mint authority, read back
C16_Witness ==
    /\ Built
    /\ call.kind = "InitializeMint"
    /\ call.args[2] = 255
    /\ call.args[4] # NULL /\ call.args[4] # call.args[3]
    /\ Decode(call.kind, ret.data).fields = <<255, call.args[3], call.args[4]>>
    /\ Decode(call.kind, ret.data).length = 67

----------------------------------------------------------------------------
(* Properties of the scripts (Spec).                                       *)

\* main() has attached the blockhash and the fee payer and has signed
AfterSign == pc \in {"serialize", "send", "awaitSend", "awaitConfirm", "catch", "getLogs", "done"}

\* main() has called transaction.add
AfterAdd == pc = "getLatestBlockhash" \/ pc = "sign" \/ AfterSign

RequiredSignerSet(tx) ==
    {tx.instructions[i].keys[j].pubkey :
        <<i, j>> \in {<<a, b>> \in (1..Len(tx.instructions)) \X (1..4) :
                          /\ b <= Len(tx.instructions[a].keys)
                          /\ tx.instructions[a].keys[b].isSigner}}
    \cup {tx.feePayer}

SignedSet(tx) ==
    {tx.signatures[i].publicKey :
        i \in {k \in 1..Len(tx.signatures) : tx.signatures[k].signature # NULL}}

ExpectedSigners ==
    IF script = TokenManual THEN {"payer", "mint", "tokenAccountA", "tokenAccountB"}
    ELSE IF script = ExistingMint THEN {"payer", "tokenAccountA", "tokenAccountB"}
    ELSE {"payer", "mint"}

\* C5: when the batch is serialized, exactly the identities of its
\* required-signer set (signer references of all instructions, and the fee
\* payer) have signed: payer, mint, A, B / payer, A, B / payer, mint.
C5_RequiredSignersSigned ==
    /\ AfterSign =>
         /\ SignedSet(transaction) = RequiredSignerSet(transaction)
         /\ SignedSet(transaction) = ExpectedSigners
    /\ rawTx # NoWire =>
         /\ {rawTx.signatures[i] : i \in 1..Len(rawTx.signatures)} = ExpectedSigners
         /\ rawTx.message.numRequiredSignatures = Cardinality(ExpectedSigners)
         /\ {rawTx.message.accountKeys[i] : i \in 1..rawTx.message.numRequiredSignatures}
                = ExpectedSigners

C5_Witness ==
    /\ pc = "send"
    /\ script = TokenManual
    /\ Len(rawTx.message.instructions) = 8
    /\ {rawTx.signatures[i] : i \in 1..Len(rawTx.signatures)}
           = {"payer", "mint", "tokenAccountA", "tokenAccountB"}

\* C6: the mint script's batch is AccountAllocation(payer, mint, L, 82, token
\* program) then InitializeMint(mint, 9, payer, none), of 52 and 35 bytes,
\* and its required signers are payer and mint.
C6_MintBatch ==
    (script = MintManual /\ AfterAdd) =>
        /\ Len(transaction.instructions) = 2
        /\ LET alloc == transaction.instructions[1]
               init == transaction.instructions[2]
           IN  /\ alloc.programId = SystemProgramId
               /\ alloc.keys = <<Ref("payer", TRUE, TRUE), Ref("mint", TRUE, TRUE)>>
               /\ Len(alloc.data) = 52
               /\ SubSeq(alloc.data, 1, 4) = <<0, 0, 0, 0>>
               /\ ReadBigUInt64LE(alloc.data, 4) = NumberToBigInt(rent[82])
               /\ SubSeq(alloc.data, 13, 20) = <<82, 0, 0, 0, 0, 0, 0, 0>>
               /\ SubSeq(alloc.data, 21, 52) = PubkeyToBuffer(TOKEN_PROGRAM_ID)
               /\ init.programId = TOKEN_PROGRAM_ID
               /\ init.keys = <<Ref("mint", FALSE, TRUE), Ref(SYSVAR_RENT_PUBKEY, FALSE, FALSE)>>
               /\ Len(init.data) = 35
               /\ init.data[1] = 0
               /\ init.data[2] = 9
               /\ SubSeq(init.data, 3, 34) = PubkeyToBuffer("payer")
               /\ init.data[35] = 0
        /\ (transaction.feePayer # NULL =>
                RequiredSignerSet(transaction) = {"payer", "mint"})
        /\ {transaction.instructions[i].keys[j].pubkey :
               <<i, j>> \in {<<a, b>> \in (1..2) \X (1..2) :
                                transaction.instructions[a].keys[b].isSigner}}
              = {"payer", "mint"}

C6_Witness ==
    /\ script = MintManual
    /\ pc = "send"
    /\ Len(rawTx.message.instructions) = 2
    /\ Len(rawTx.message.instructions[1].data) = 52
    /\ Len(rawTx.message.instructions[2].data) = 35

KindOf(instr) ==
    IF instr.programId = SystemProgramId THEN "AccountAllocation"
    ELSE IF instr.data[1] = 0 THEN "InitializeMint"
    ELSE IF instr.data[1] = 1 THEN "InitializeAccount"
    ELSE IF instr.data[1] = 7 THEN "MintTo"
    ELSE IF instr.data[1] = 3 THEN "Transfer"
    ELSE "unknown"

\* some instruction before the j-th has this kind and this identity at position k
Earlier(batch, j, kind, k, id) ==
    \E i \in 1..(j - 1) : KindOf(batch[i]) = kind /\ batch[i].keys[k].pubkey = id

Anywhere(batch, kind, k, id) ==
    \E i \in 1..Len(batch) : KindOf(batch[i]) = kind /\ batch[i].keys[k].pubkey = id

\* each instruction of the batch comes after what it depends on
DependenciesFirst(batch) ==
    \A j \in 1..Len(batch) :
        LET kind == KindOf(batch[j])
            key(k) == batch[j].keys[k].pubkey
        IN  /\ kind \in {"InitializeMint", "InitializeAccount"} =>
                 Earlier(batch, j, "AccountAllocation", 2, key(1))
            /\ (kind = "InitializeAccount" /\ Anywhere(batch, "InitializeMint", 1, key(2))) =>
                 Earlier(batch, j, "InitializeMint", 1, key(2))
            /\ (kind = "MintTo" /\ Anywhere(batch, "InitializeMint", 1, key(1))) =>
                 Earlier(batch, j, "InitializeMint", 1, key(1))
            /\ kind = "MintTo" => Earlier(batch, j, "InitializeAccount", 1, key(2))
            /\ kind = "Transfer" =>
                 /\ Earlier(batch, j, "InitializeAccount", 1, key(1))
                 /\ Earlier(batch, j, "InitializeAccount", 1, key(2))
                 /\ Earlier(batch, j, "MintTo", 2, key(1))

\* the statements of main() that built the instructions, in the order of the
\* arguments of transaction.add in the source
SourceOrder ==
    IF script = MintManual THEN <<"createMintAccountIx", "initMintIx">>
    ELSE IF script = TokenManual
    THEN <<"createMintAccountIx", "createTokenAccountAIx", "createTokenAccountBIx",
           "initMintIx", "initAccountAIx", "initAccountBIx", "mintToIx", "transferIx">>
    ELSE <<"createTokenAccountAIx", "createTokenAccountBIx",
           "initAccountAIx", "initAccountBIx", "mintToIx", "transferIx">>

SubmittedBatch == [i \in 1..Len(inflight.message.instructions) |-> Decompile(inflight.message, i)]

\* C7: the batch handed to the cluster holds the instructions in the order
\* they were appended, and each dependency precedes its use (allocation before
\* initialization, mint before its accounts and MintTo, accounts before MintTo
\* and Transfer, MintTo before Transfer).
C7_OrderPreserved ==
    /\ AfterAdd =>
         /\ Len(transaction.instructions) = Len(SourceOrder)
         /\ \A i \in 1..Len(SourceOrder) :
                /\ transaction.instructions[i].programId = ix[SourceOrder[i]].programId
                /\ transaction.instructions[i].keys = ix[SourceOrder[i]].keys
                /\ transaction.instructions[i].data = ix[SourceOrder[i]].data
         /\ DependenciesFirst(transaction.instructions)
    /\ inflight # NoWire =>
         /\ Len(SubmittedBatch) = Len(transaction.instructions)
         /\ \A i \in 1..Len(SubmittedBatch) :
                /\ SubmittedBatch[i].programId = transaction.instructions[i].programId
                /\ SubmittedBatch[i].data = transaction.instructions[i].data
                /\ Pubkeys(SubmittedBatch[i].keys) = Pubkeys(transaction.instructions[i].keys)
         /\ DependenciesFirst(SubmittedBatch)

C7_Witness ==
    /\ script = TokenManual
    /\ inflight # NoWire
    /\ Len(SubmittedBatch) = 8
    /\ KindOf(SubmittedBatch[7]) = "MintTo"
    /\ KindOf(SubmittedBatch[8]) = "Transfer"
    /\ SubmittedBatch[8].keys[1].pubkey = SubmittedBatch[7].keys[2].pubkey

Lamports(n) == NumberToBigInt(n)

TokenProgramAccount(lamports, size) ==
    [NoAccount EXCEPT !.lamports = Lamports(lamports), !.space = NumberToBigInt(size),
                      !.owner = TOKEN_PROGRAM_ID]

\* 10 * 10^9, 7 * 10^9 and 3 * 10^9 base units
TenBillion == Big(FALSE, <<58368, 21515, 2, 0, 0>>)
SevenBillion == Big(FALSE, <<34304, 41275, 1, 0, 0>>)
ThreeBillion == Big(FALSE, <<24064, 45776, 0, 0, 0>>)

TokenAccountOf(mintId, owner, amount) ==
    [TokenProgramAccount(rent[165], 165) EXCEPT
        !.state = "token", !.mint = mintId, !.tokenOwner = owner, !.amount = amount]

\* the accounts with every instruction of the script's batch applied
AllApplied ==
    [id \in LedgerIds |->
        CASE id = "payer" ->
                [accounts0["payer"] EXCEPT !.lamports =
                    BigSub(@, Lamports((IF script = ExistingMint THEN 0 ELSE rent[82])
                                       + (IF script = MintManual THEN 0 ELSE 2 * rent[165])))]
          [] id = "mint" ->
                IF script = ExistingMint THEN accounts0["mint"]
                ELSE [TokenProgramAccount(rent[82], 82) EXCEPT
                         !.state = "mint", !.decimals = 9, !.authority = "payer",
                         !.supply = IF script = TokenManual THEN TenBillion ELSE BigZero]
          [] id = "existingMint" ->
                IF script = ExistingMint
                THEN [accounts0["existingMint"] EXCEPT !.supply = BigAdd(@, TenBillion)]
                ELSE accounts0["existingMint"]
          [] id = "tokenAccountA" ->
                IF script = MintManual THEN accounts0["tokenAccountA"]
                ELSE TokenAccountOf(MintId, "payer", SevenBillion)
          [] id = "tokenAccountB" ->
                IF script = MintManual THEN accounts0["tokenAccountB"]
                ELSE TokenAccountOf(MintId, receiverPubkey, ThreeBillion)]

C10_RentMatchesSpace ==
    AfterAdd =>
        \A i \in 1..Len(transaction.instructions) :
            KindOf(transaction.instructions[i]) = "AccountAllocation" =>
                LET instr == transaction.instructions[i]
                    lamports == ReadBigUInt64LE(instr.data, 4)
                    space == ReadBigUInt64LE(instr.data, 12)
                    new == instr.keys[2].pubkey
                    Later(kind) ==
                        \E j \in (i + 1)..Len(transaction.instructions) :
                            /\ KindOf(transaction.instructions[j]) = kind
                            /\ transaction.instructions[j].keys[1].pubkey = new
                IN  /\ Later("InitializeMint") => space = NumberToBigInt(82)
                    /\ Later("InitializeAccount") => space = NumberToBigInt(165)
                    /\ Later("InitializeMint") \/ Later("InitializeAccount")
                    /\ \E size \in {82, 165} :
                          /\ space = NumberToBigInt(size)
                          /\ lamports = NumberToBigInt(rent[size])
                          /\ \E k \in 1..Len(rpc) :
                                rpc[k] = IF size = 82
                                         THEN "getMinimumBalanceForRentExemption(82)"
                                         ELSE "getMinimumBalanceForRentExemption(165)"

\* the eight-instruction batch, on a cluster whose two minimums differ
C10_Witness ==
    /\ script = TokenManual
    /\ pc = "sign"
    /\ rent[82] # rent[165]
    /\ ReadBigUInt64LE(transaction.instructions[1].data, 4) = NumberToBigInt(rent[82])
    /\ ReadBigUInt64LE(transaction.instructions[2].data, 4) = NumberToBigInt(rent[165])
    /\ ReadBigUInt64LE(transaction.instructions[3].data, 12) = NumberToBigInt(165)

----------------------------------------------------------------------------
(* The Transaction object under the calls the scripts make on it, in any    *)
(* order and with any arguments: add (one instruction of the script's list  *)
(* at a time), the finalizing statements (recentBlockhash and feePayer      *)
(* assigned, sign, serialize) and sendRawTransaction.  call records the     *)
(* last call, its arguments and the transaction it was made on.             *)

\* the instructions of a script, as main() builds them
InstructionsOf(lamports) ==
    ("createMintAccountIx" :> CreateMintAccountIx(lamports))
    @@ ("createTokenAccountAIx" :> CreateTokenAccountAIx(lamports))
    @@ ("createTokenAccountBIx" :> CreateTokenAccountBIx(lamports))
    @@ ("initMintIx" :> InitMintIx)
    @@ ("initAccountAIx" :> InitAccountAIx(MintId))
    @@ ("initAccountBIx" :> InitAccountBIx(MintId))
    @@ ("mintToIx" :> MintToIx(MintId))
    @@ ("transferIx" :> TransferIx)

RECURSIVE SubSeqs(_)
\* the subsequences of a sequence
SubSeqs(seq) ==
    IF seq = <<>> THEN {<<>>}
    ELSE LET rest == SubSeqs(Tail(seq))
         IN  rest \cup {<<Head(seq)>> \o r : r \in rest}

\* what may be passed to transaction.sign: some of the script's signers
SignerChoices(s) == SubSeqs(Signers(s))

BatchInit ==
    /\ call = [kind |-> "none", args |-> <<>>, returned |-> FALSE]
    /\ ret = NoReturn
    /\ heap = <<>>
    /\ script \in Scripts
    /\ env = [SENDER_SECRET_KEY |-> TRUE, RECEIVER_PUBLIC_KEY |-> "receiver"]
    /\ mintAddress = IF script = ExistingMint THEN "existingMint" ELSE NULL
    /\ keypairs = {}
    /\ pc = "batch"
    /\ err = NoError
    /\ ix = InstructionsOf(Num(1))
    /\ transaction = NewTransaction
    /\ mintRent = Undefined
    /\ tokenAccountRent = Undefined
    /\ latestBlockhash = NULL
    /\ rawTx = NoWire
    /\ txSignature = NULL
    /\ rpc = <<>>
    /\ rent = [sz \in Sizes |-> 1]
    /\ accounts = [id \in LedgerIds |-> NoAccount]
    /\ accounts0 = accounts
    /\ inflight = NoWire
    /\ txStatus = "none"

\* transaction.add(instruction): the next instruction of the script's list
BatchAdd ==
    /\ pc \in {"batch", "send"}
    /\ Len(transaction.instructions) < Len(AddOrder(script))
    /\ call' = [kind |-> "add", args |-> <<transaction>>, returned |-> TRUE]
    /\ transaction' = TransactionAdd(transaction,
                         <<Ix(ix[AddOrder(script)[Len(transaction.instructions) + 1]])>>)
    /\ UNCHANGED <<ret, heap, configVars, pc, err, ix, mintRent, tokenAccountRent, latestBlockhash,
                   rawTx, txSignature, rpc, clusterVars>>

\* transaction.recentBlockhash = ...; transaction.feePayer = ...;
\* transaction.sign(...); rawTx = transaction.serialize()
BatchFinalize ==
    /\ pc \in {"batch", "send"}
    /\ \E bh \in Blockhashes \cup {NULL}, fp \in {"payer", NULL},
          signers \in SignerChoices(script) :
          LET Finalized(s, z) ==
                  /\ call' = [kind |-> "finalize", args |-> <<transaction, bh, fp, signers>>,
                              returned |-> TRUE]
                  /\ transaction' = s.tx
                  /\ latestBlockhash' = bh
                  /\ IF s.err # "none" THEN Exit(s.err) /\ UNCHANGED rawTx
                     ELSE IF z.err # "none" THEN Exit(z.err) /\ UNCHANGED rawTx
                     ELSE rawTx' = z.wire /\ pc' = "send" /\ UNCHANGED err
              Signed(s) == Finalized(s, TransactionSerialize(s.tx))
          IN  Signed(TransactionSign([transaction EXCEPT !.recentBlockhash = bh,
                                                          !.feePayer = fp], signers))
    /\ UNCHANGED <<ret, heap, configVars, ix, mintRent, tokenAccountRent, txSignature, rpc,
                   clusterVars>>

BatchNext ==
    \/ BatchAdd
    \/ BatchFinalize
    \/ SendRawTransaction

BatchSpec == BatchInit /\ [][BatchNext]_vars

\* a constructor called by main() threw: main() has ended with that error
ConstructorThrew == pc = "exited" /\ err.uncaught = "constructor threw"

\* C11: when a constructor raises a domain violation (here: lamports outside
\* the unsigned 64-bit range), no network interaction has taken place yet, and
\* nothing is signed or submitted afterwards.
C11_ViolationBeforeNetwork ==
    ConstructorThrew =>
        /\ rpc = <<>>
        /\ transaction = NewTransaction
        /\ rawTx = NoWire
        /\ inflight = NoWire

RentRequests ==
    {"getBalance", "getMinimumBalanceForRentExemption(82)",
     "getMinimumBalanceForRentExemption(165)"}

\* C11 (as the code has it): the violation is raised in the step that calls
\* the constructor, after the balance and rent queries that supply its
\* arguments and before anything else: no instruction is added, no blockhash
\* is asked for, nothing is signed, serialized or submitted.
C11_ViolationAtConstruction ==
    /\ (mintRent = Num(-1) \/ tokenAccountRent = Num(-1)) => ConstructorThrew
    /\ ConstructorThrew =>
          /\ rpc # <<>>
          /\ \A i \in 1..Len(rpc) : rpc[i] \in RentRequests
          /\ transaction = NewTransaction
          /\ rawTx = NoWire
          /\ inflight = NoWire
          /\ txStatus = "none" /\ accounts = accounts0

\* spl-token-manual.ts: the node answers -1 for 82 bytes; the first
\* createAccountInstruction throws after two requests
C11_Witness ==
    /\ script = TokenManual
    /\ ConstructorThrew
    /\ mintRent = Num(-1)
    /\ rpc = <<"getBalance", "getMinimumBalanceForRentExemption(82)">>
    /\ transaction = NewTransaction

\* the requests a script makes, in the order of its await statements
RequestOrder ==
    (IF script = MintManual THEN <<>> ELSE <<"getBalance">>)
    \o (IF script = ExistingMint THEN <<>> ELSE <<"getMinimumBalanceForRentExemption(82)">>)
    \o (IF script = MintManual THEN <<>> ELSE <<"getMinimumBalanceForRentExemption(165)">>)
    \o <<"getLatestBlockhash", "sendRawTransaction", "confirmTransaction">>

IsPrefix(a, b) == Len(a) <= Len(b) /\ a = SubSeq(b, 1, Len(a))

\* the requests of a run whose send failed and whose catch block asked the
\* node for the logs
RequestOrderLogs == SubSeq(RequestOrder, 1, Len(RequestOrder) - 1) \o <<"getTransaction">>

Requested(r) == \E i \in 1..Len(rpc) : rpc[i] = r

\* the instructions of the script, in the order of transaction.add
AddedInstructions == [i \in 1..Len(AddOrder(script)) |-> Ix(ix[AddOrder(script)[i]])]

\* sendRawTransaction is invoked only with all instructions added, blockhash
\* and fee payer set, every signer's signature in place and the transaction
\* serialized; confirmation is asked for only after that
SendAfterHandoff ==
    /\ Requested("sendRawTransaction") =>
          /\ transaction.instructions = AddedInstructions
          /\ transaction.recentBlockhash = latestBlockhash /\ latestBlockhash # NULL
          /\ transaction.feePayer = "payer"
          /\ SignedSet(transaction) = ExpectedSigners
          /\ rawTx = TransactionSerialize(transaction).wire /\ rawTx # NoWire
          /\ inflight = rawTx
    /\ Requested("confirmTransaction") => Requested("sendRawTransaction")

\* once blockhash and fee payer are set, instructions, fee payer and blockhash
\* stay what they were at that moment
FrozenOnceFinalized ==
    transaction.recentBlockhash # NULL =>
        /\ transaction.instructions = AddedInstructions
        /\ transaction.feePayer = "payer"
        /\ transaction.recentBlockhash = latestBlockhash

\* C17: submission and confirmation come after the finalized, signed and
\* serialized transaction; the finalized transaction is not changed; and
\* between new Transaction() and sendRawTransaction no request is made (the
\* only earlier request is getBalance, made before new Transaction()).
C17_NoRequestWhileBuilding ==
    /\ SendAfterHandoff
    /\ FrozenOnceFinalized
    /\ \A i \in 1..Len(rpc) :
          rpc[i] \in {"getBalance", "sendRawTransaction", "confirmTransaction",
                     "getTransaction"}

\* C17 (as the code has it): the same, except that between new Transaction()
\* and sendRawTransaction the scripts await the rent queries and
\* getLatestBlockhash; the requests of a run are always a prefix of the fixed
\* sequence balance, rent, blockhash, send, confirm, or, after a failed send,
\* of balance, rent, blockhash, send, log query.
C17_SubmitAfterHandoff ==
    /\ SendAfterHandoff
    /\ FrozenOnceFinalized
    /\ IsPrefix(rpc, RequestOrder) \/ rpc = RequestOrderLogs

C17_Witness ==
    /\ script = TokenManual
    /\ pc = "awaitConfirm"
    /\ rpc = <<"getBalance", "getMinimumBalanceForRentExemption(82)",
               "getMinimumBalanceForRentExemption(165)", "getLatestBlockhash",
               "sendRawTransaction", "confirmTransaction">>
    /\ inflight = rawTx /\ rawTx # NoWire
    /\ Len(transaction.instructions) = 8

\* how often a request was made
Count(r) == Cardinality({i \in 1..Len(rpc) : rpc[i] = r})

\* the argument of confirmTransaction
ConfirmArgs == [signature |-> txSignature, blockhash |-> latestBlockhash]

SendFailed == err.caught \in {"SendTransactionError", "network error"}

ConfirmFailed == err.caught = "confirmTransaction failed"

\* one submission at most; confirmation only with the signature that
\* sendRawTransaction returned and the blockhash of the submitted transaction
SubmitOnceThenConfirm ==
    /\ Count("sendRawTransaction") <= 1
    /\ Count("confirmTransaction") <= 1
    /\ Requested("confirmTransaction") =>
          /\ Requested("sendRawTransaction")
          /\ ConfirmArgs.signature # NULL
          /\ ConfirmArgs.signature = inflight.signatures[1]
          /\ ConfirmArgs.blockhash = inflight.message.recentBlockhash
          /\ ConfirmArgs.blockhash = transaction.recentBlockhash

\* a rejection of sendRawTransaction or confirmTransaction lands in the catch
\* block; no confirmation follows a failed send; the transaction is not built
\* or sent again
FailureCaught ==
    /\ pc = "catch" => err.caught # "none" /\ err.uncaught = "none"
    /\ err.caught # "none" =>
          /\ pc \in {"catch", "getLogs", "done", "exited"}
          /\ Count("sendRawTransaction") = 1
          /\ transaction.instructions = AddedInstructions
          /\ rawTx = TransactionSerialize(transaction).wire
          /\ inflight = rawTx
    /\ SendFailed => ~Requested("confirmTransaction") /\ txSignature = NULL
    /\ ConfirmFailed => Requested("confirmTransaction")

----------------------------------------------------------------------------
(* Properties of the Transaction object (BatchSpec).                       *)

\* the last call was the finalizing statements
Finalizing == call.kind = "finalize" /\ call.returned

SeqSet(seq) == {seq[i] : i \in 1..Len(seq)}

\* the identities that must sign a transaction finalized with these signers:
\* the signer references of its instructions and its fee payer (the first
\* signer when no fee payer is set)
RequiredWith(tx, fp, signers) ==
    (RequiredSignerSet(tx) \ {tx.feePayer})
    \cup (IF fp # NULL THEN {fp} ELSE IF signers # <<>> THEN {signers[1]} ELSE {})

\* C12: a transaction lacking the signature of a required signer makes
\* serialize() throw, so sendRawTransaction is never invoked with it: every
\* wire that is handed over carries the signature of each required signer.
C12_MissingSignatureLocal ==
    /\ (Finalizing /\ call.args[2] # NULL
        /\ ~(RequiredWith(call.args[1], call.args[3], call.args[4]) \subseteq SeqSet(call.args[4])))
          => /\ pc = "exited"
             /\ err.uncaught # "none"
             /\ rpc = <<>> /\ inflight = NoWire
    /\ (Finalizing /\ pc = "send") =>
          /\ RequiredWith(call.args[1], call.args[3], call.args[4]) \subseteq SeqSet(rawTx.signatures)
          /\ SignaturesValid(rawTx)
    /\ inflight # NoWire =>
          /\ SignaturesValid(inflight)
          /\ NULL \notin SeqSet(inflight.signatures)
          /\ inflight = rawTx

\* the eight instructions finalized with payer and mint only: serialize throws
C12_Witness ==
    /\ script = TokenManual
    /\ Finalizing
    /\ Len(call.args[1].instructions) = 8
    /\ call.args[2] # NULL /\ call.args[3] = "payer"
    /\ call.args[4] = <<"payer", "mint">>
    /\ pc = "exited"
    /\ err.uncaught = "Signature verification failed"
    /\ rpc = <<>>

\* the call failed: main() ended with its exception
CallFailed == pc = "exited" /\ err.uncaught # "none"

\* the transaction is a finalized one: it holds a blockhash and the
\* signatures of all its required signers, so that it serializes
IsFinalized(tx) == TransactionSerialize(tx).err = "none"

FinalizedAgain == Finalizing /\ IsFinalized(call.args[1])

\* with the blockhash, the fee payer and the signers it already had
SameFinalization ==
    /\ call.args[2] = call.args[1].recentBlockhash
    /\ call.args[3] = call.args[1].feePayer
    /\ SeqSet(call.args[4]) = SignedSet(call.args[1])

----------------------------------------------------------------------------
(* Properties of the fixed-width writes (WriteSpec).                       *)

\* the bytes free at the offset are fewer than the width of the value
TooSmall == call.args[1] - call.args[2] < WriteWidth(call.kind)

----------------------------------------------------------------------------
(* Properties of the helper flow (HelperSpec)                               *)

\* the eight instructions of spl-token-manual.ts in the order of
\* transaction.add, built for the same cluster
ManualInstructions ==
    LET InOrder(built, order) == [i \in 1..Len(order) |-> Ix(built[order[i]])]
    IN  InOrder(("createMintAccountIx" :> CreateMintAccountIx(Num(rent[MINT_SIZE])))
                @@ ("createTokenAccountAIx" :> CreateTokenAccountAIx(Num(rent[ACCOUNT_SIZE])))
                @@ ("createTokenAccountBIx" :> CreateTokenAccountBIx(Num(rent[ACCOUNT_SIZE])))
                @@ ("initMintIx" :> InitMintIx)
                @@ ("initAccountAIx" :> InitAccountAIx("mint"))
                @@ ("initAccountBIx" :> InitAccountBIx("mint"))
                @@ ("mintToIx" :> MintToIx("mint"))
                @@ ("transferIx" :> TransferIx),
                AddOrder(TokenManual))

\* what the manual script's one transaction makes of the accounts the helper
\* script started from
ManualOutcome == SendAndConfirm(accounts0, ManualInstructions, Signers(TokenManual))

\* the result the two scripts are compared on: the mint, the sender's token
\* account and the receiver's token account
TokenState(l, senderAccount, receiverAccount) ==
    [mint |-> [decimals |-> l["mint"].decimals, authority |-> l["mint"].authority,
               supply |-> l["mint"].supply],
     sender |-> [owner |-> l[senderAccount].tokenOwner, mint |-> l[senderAccount].mint,
                 amount |-> l[senderAccount].amount],
     receiver |-> [owner |-> l[receiverAccount].tokenOwner, mint |-> l[receiverAccount].mint,
                   amount |-> l[receiverAccount].amount]]

\* the result the scripts are said to end with
ExpectedTokenState ==
    [mint |-> [decimals |-> 9, authority |-> "payer", supply |-> TenBillion],
     sender |-> [owner |-> "payer", mint |-> "mint", amount |-> SevenBillion],
     receiver |-> [owner |-> receiverPubkey, mint |-> "mint", amount |-> ThreeBillion]]

HelperState ==
    TokenState(accounts, AssociatedTokenAddress("payer"), AssociatedTokenAddress(receiverPubkey))

ManualState(r) == TokenState(r.accounts, "tokenAccountA", "tokenAccountB")

SameResult ==
    LET Compared(r) ==
            /\ r.ok
            /\ ManualState(r) = ExpectedTokenState
            /\ HelperState = ExpectedTokenState
    IN  Compared(ManualOutcome)

HelperDone == script = TokenBasic /\ pc = "done"

----------------------------------------------------------------------------
(* Properties of the copies of the constructors (CopiesSpec)                *)

\* what a call hands back: the exception, or the target program, the account
\* references and the payload bytes
Outcome(r) ==
    [threw |-> r.threw, error |-> r.error, programId |-> r.programId, keys |-> r.keys,
     data |-> r.data]

\* every script that defines the constructor of the call answers it alike
CopiesAgree ==
    LET Agree(reference) ==
            \A s \in Scripts :
                call.kind \in KindsOf(s) => Outcome(ConstructorOf(s, call)) = reference
    IN  Agree(Outcome(ConstructorOf(TokenManual, call)))

\* the two descriptors built from the same arguments are equal and hold their
\* payloads in different Buffers: a write through the first is not seen
\* through the second
EqualAndApart ==
    Len(ix) = 2 =>
        /\ ix[1].programId = ix[2].programId
        /\ ix[1].keys = ix[2].keys
        /\ ix[1].data # ix[2].data
        /\ heap[ix[2].data] = ret.data
        /\ pc = "construct" => heap[ix[1].data] = heap[ix[2].data]

\* C19: for the same arguments the copies of a constructor in the three
\* scripts return the same target program, account references and payload
\* bytes (or throw the same error), and two calls of one constructor with equal
\* arguments return equal descriptors that share no Buffer.
C19_CopiesIdentical == CopiesAgree /\ EqualAndApart

C19_Witness ==
    /\ script = ExistingMint
    /\ call.kind = "Transfer"
    /\ call.args[4] = BigBytes18
    /\ pc = "written"
    /\ heap[ix[1].data][1] = 255
    /\ heap[ix[2].data] = <<ExistingMint_TOKEN_INSTRUCTION_TRANSFER, 8, 7, 6, 5, 4, 3, 2, 1>>

----------------------------------------------------------------------------
(* Properties of the four scripts (ScriptsSpec)                             *)

\* the environment values a script asks for
RequiredEnv(s) ==
    IF s = MintManual THEN {"SENDER_SECRET_KEY"}
    ELSE {"SENDER_SECRET_KEY", "RECEIVER_PUBLIC_KEY"}

IsMissing(name) ==
    IF name = "SENDER_SECRET_KEY" THEN ~env.SENDER_SECRET_KEY
    ELSE env.RECEIVER_PUBLIC_KEY = Unset

EnvMissing == \E name \in RequiredEnv(script) : IsMissing(name)

\* no request made, no key pair loaded or generated, no instruction built
NothingStarted ==
    /\ rpc = <<>>
    /\ keypairs = {}
    /\ ix = <<>>
    /\ transaction = NewTransaction

PastEnvCheck == pc \notin {"load", "main"}

\* the mint-creation script goes on without RECEIVER_PUBLIC_KEY
MintScriptProceeds ==
    (script = MintManual /\ env.SENDER_SECRET_KEY /\ PastEnvCheck) =>
        /\ err.uncaught # "Missing env var"
        /\ rpc # <<>>
        /\ "payer" \in keypairs

\* C21 as stated: with a required environment value missing the run ends with
\* the 'Missing env var' error, and no request has been made, no key pair
\* loaded or generated and no instruction built; the token scripts require
\* both values, the mint-creation script only SENDER_SECRET_KEY.
C21_MissingEnvFirst ==
    /\ EnvMissing => NothingStarted
    /\ (EnvMissing /\ pc # "load" /\ pc # "main") =>
          pc = "exited" /\ err.uncaught = "Missing env var"
    /\ MintScriptProceeds

\* C21, as far as it holds: the same, except that the existing-mint script
\* with MINT_ADDRESS left at its placeholder fails while the module is loaded,
\* with the base58 error of new PublicKey, before main() and its check run.
C21_MissingEnvInMain ==
    /\ EnvMissing => NothingStarted
    /\ (EnvMissing /\ PastEnvCheck) =>
          /\ pc = "exited"
          /\ err.uncaught = IF script = ExistingMint /\ mintAddress = Placeholder
                            THEN "Non-base58 character"
                            ELSE "Missing env var"
    /\ MintScriptProceeds

C21_Witness ==
    /\ script = TokenBasic
    /\ env.SENDER_SECRET_KEY
    /\ env.RECEIVER_PUBLIC_KEY = Unset
    /\ pc = "exited"
    /\ err.uncaught = "Missing env var"
    /\ NothingStarted

\* the requests of the helper script, in the order of its await statements
\* (the receiver's associated account is only looked up when it is the
\* sender's)
HelperRequestOrder ==
    <<"getBalance", "createMint", "getOrCreateAssociatedTokenAccount",
      IF receiverPubkey = "payer" THEN "getAccount" ELSE "getOrCreateAssociatedTokenAccount",
      "mintTo", "getAccount", "transfer", "getAccount", "getAccount">>

\* the five ledger operations among the requests: createMint, the two token
\* accounts, mintTo, transfer
IsOperation(i) == i \in 2..4 \/ rpc[i] \in {"mintTo", "transfer"}

OperationsStarted == Cardinality({i \in 1..Len(rpc) : IsOperation(i)})

HelperRejected == pc = "exited" /\ err.uncaught = "helper rejected"

\* the operations that completed: all that were started, but the one that failed
OperationsCompleted ==
    IF HelperRejected THEN OperationsStarted - 1 ELSE OperationsStarted

\* the accounts with the first k ledger operations of the helper script applied
AfterOperations(k) ==
    LET twoAccounts == receiverPubkey # "payer"
        spent == (IF k >= 1 THEN rent[82] ELSE 0) + (IF k >= 2 THEN rent[165] ELSE 0)
                 + (IF k >= 3 /\ twoAccounts THEN rent[165] ELSE 0)
        minted == IF k >= 4 THEN TenBillion ELSE BigZero
        moved == IF k >= 5 /\ twoAccounts THEN ThreeBillion ELSE BigZero
    IN  [id \in LedgerIds |->
            CASE id = "payer" ->
                    [accounts0["payer"] EXCEPT !.lamports = BigSub(@, Lamports(spent))]
              [] id = "mint" /\ k >= 1 ->
                    [TokenProgramAccount(rent[82], 82) EXCEPT
                        !.state = "mint", !.decimals = 9, !.authority = "payer",
                        !.supply = minted]
              [] id = "tokenAccountA" /\ k >= 2 ->
                    TokenAccountOf("mint", "payer", BigSub(minted, moved))
              [] id = "tokenAccountB" /\ k >= 3 /\ twoAccounts ->
                    TokenAccountOf("mint", receiverPubkey, moved)
              [] OTHER -> accounts0[id]]

\* the helper script: the operations are requested in their order, and the
\* accounts are those with exactly the completed operations applied; with one
\* to four of them completed that is neither the state before the script nor
\* the state the manual script's transaction would leave
SequentialNotAtomic ==
    script = TokenBasic =>
        /\ IsPrefix(rpc, HelperRequestOrder)
        /\ accounts = AfterOperations(OperationsCompleted)
        /\ HelperRejected => rpc # <<>> /\ IsOperation(Len(rpc))
        /\ OperationsCompleted \in 1..4 =>
              accounts # accounts0 /\ accounts # ManualOutcome.accounts

\* the manual scripts: the accounts are those from before the script or those
\* with the whole batch applied
ManualAtomic == script \in Scripts => accounts = accounts0 \/ accounts = AllApplied

\* C22: the helper script starts its five ledger operations one after the
\* other, in order; when one fails no later one is attempted and the effects of
\* the earlier ones stay; so the mint can exist with 10 * 10^9 minted to the
\* sender and no transfer done, which the manual single-transaction script
\* never leaves behind.
C22_SequentialNotAtomic == SequentialNotAtomic /\ ManualAtomic

\* the helper script ended after mintTo and before the transfer
C22_Witness ==
    /\ script = TokenBasic
    /\ receiverPubkey = "receiver"
    /\ pc = "exited"
    /\ OperationsCompleted = 4
    /\ ~Requested("transfer")
    /\ accounts["mint"].supply = TenBillion
    /\ accounts["tokenAccountA"].amount = TenBillion
    /\ accounts["tokenAccountB"].amount = BigZero

============================================================================
